---- MODULE Spec2Model ----
(***************************************************************************)
(* Model of the mcsl-daemon-rs runtime: the per-connection task pool and   *)
(* protocol dispatcher, the range-remainder tracker, the chunked file      *)
(* transfer engine, the connection manager, the upgrade handler and the    *)
(* driver with its shutdown watcher.                                       *)
(***************************************************************************)
EXTENDS Integers, Sequences, FiniteSets, Bags, TLC

\* ------------------------------------------------------------------------
\* Bounds and configuration
\* ------------------------------------------------------------------------

\* ProtocolV1Config.max_parallel_requests of the modelled configuration
MaxWorkers == 2

\* ProtocolV1Config.max_pending_requests of the modelled configuration
MaxPending == 1

\* number of frames the modelled connection receives
MaxFrames == 4

\* largest interval end given to U64Remain::new
MaxEnd == 4

\* largest declared size of an upload
MaxSize == 3

\* longest chunk string, in UTF-16 code units
MaxUnits == 2

\* longest file downloaded as text, in bytes
MaxFile == 3

\* listeners added to an event in one run
MaxListeners == 2

\* largest n of TListener::count(n)
MaxCount == 2

\* invokes of an event in one run
MaxInvokes == 3

\* threads that invoke an event at the same time
MaxInvokers == 2

\* file operations started in one run
MaxOps == 4

\* messages counted in an outgoing channel; more are counted as this many
MaxOut == 1

\* file operations started by the connections in one run
MaxConnOps == 2

\* HTTP connections a driver accepts in one run
MaxHttp == 3

\* bytes of a binary frame after its first four
MaxTail == 4

\* children one instance spawns in one run
MaxProcs == 2

\* calls on the instance and edits of its config in one run
MaxInstOps == 3

\* statuses waiting in the status channel when an output line adds one
MaxPub == 1

\* ProtocolV1Config.file_download_sessions of the modelled configuration
DownloadCap == 1

\* Uuid::nil()
NilId == 0

\* retcode::OK
OK == 0

\* retcode::REQUEST_ERROR
REQUEST_ERROR == 10000

\* retcode::BAD_REQUEST
BAD_REQUEST == 10001

\* retcode::RATE_LIMIT_EXCEEDED
RATE_LIMIT_EXCEEDED == 10005

\* ProtocolConfig::default enables protocol v1
V1Enabled == TRUE

VARIABLES
    \* ---- task pool (utils/task_pool.rs) ----
    active_workers,   \* AtomicUsize
    total_workers,    \* AtomicUsize
    sink_open,        \* the receiver of output_tx has not been dropped
    task_closed,      \* the pool was dropped and the task channel closed
    task_chan,        \* buffer of the bounded kanal channel (task_tx / task_rx)
    wk,               \* spawned worker tasks: a bag of [pc, task]
    \* ---- connection loop (drivers/websocket/connection.rs) ----
    sub,              \* the read arm: [pc, frame, a, t]
    next_frame,       \* id of the next frame read from the socket
    outgoing_rx,      \* messages queued on the unbounded output sink
    \* ---- a remainder tracker on its own (utils/remains.rs) ----
    remains,          \* U64Remain::remains: BTreeMap begin -> end
    rm_range,         \* history: the <<begin, end>> given to new
    rm_reduced,       \* history: the integers covered by the reduce calls
    \* ---- file transfer engine (storage/files.rs) ----
    upload_sessions,  \* Files::upload_sessions: id -> session
    download_sessions,\* Files::download_sessions: id -> session
    next_id,          \* the next Uuid::new_v4()
    fs,               \* directory entries: name -> inode, 0 when absent
    inodes,           \* inode -> the file's bytes
    calls,            \* the file operations in progress: caller -> [op, pc, ...]
    ops_left,         \* file operations still to be started
    \* ---- connection manager (drivers/websocket/connection.rs) ----
    connections,      \* WsConnManager::connections: the ids in the map
    id_ctr,           \* WsConnManager::id
    conn_pc,          \* each connection's position in serve_connection
    conn_id,          \* the id serve_connection gave the connection, -1 before
    peer_open,        \* whether the peer still holds its end of the socket
    conn_out,         \* messages waiting in each connection's outgoing_rx
    conn_woken,       \* whether the Notified of the current select was woken
    close_sent,       \* the Close frames written to each socket
    conn_created,     \* history: the upload sessions each connection created
    stop_fired,       \* stop_notify.notify_waiters() has been called
    stop_open,        \* history: the connections open when it was called
    upgrade,          \* each connection's upgrade request and its answer
    \* a driver (drivers/websocket/driver.rs) and the shutdown watcher
    watch,            \* which GracefulShutdown::watch runs the drivers
    drv_pc,           \* position of WsDriver::run
    http_handlers,    \* HTTP connection task -> its state
    stop_permit,      \* the permit stored in the driver's stop_notification
    \* one instance (management/instance.rs) and its child processes
    strategy,         \* the strategy the instance was constructed with
    state,            \* InstanceState: config, last_config_modified, status, process
    disk,             \* daemon_instance.json as it is on disk
    procs,            \* spawned child -> the child, its I/O task and its channels
    collecting,       \* handles held by start calls that sample the log
    status_tx,        \* the statuses in the status channel
    mirrors,          \* status updater task -> the next message it receives
    inst_ret,         \* the last call on the instance and what it returned
    inst_ops,         \* calls and edits left in this run
    \* a binary frame given to protocol v1 (protocols/v1/protocol.rs)
    bin_raw,          \* the bytes of the frame
    bin_resp,         \* what handle_bin_request made of it
    \* a range downloaded as text and uploaded again (storage/files.rs)
    codec,            \* the file, the range, the string and the bytes written
    \* an event made by event_decl (utils/event.rs)
    listeners,        \* the Vec of listener wrappers, in the order of the pushes
    registered,       \* listener id -> the cells its wrappers share, how it was
                      \* added, the invokes since, its calls
    invokes_left,     \* invokes left in this run
    inv               \* thread -> where it is in invoke, its snapshot

poolVars == <<active_workers, total_workers, task_chan, wk, sub, next_frame,
              outgoing_rx, sink_open, task_closed>>

rmVars == <<remains, rm_range, rm_reduced>>

fileVars == <<upload_sessions, download_sessions, next_id, fs, inodes, calls,
              ops_left>>

connVars == <<connections, id_ctr, conn_pc, conn_id, peer_open, conn_out,
              conn_woken, close_sent, conn_created, stop_fired, stop_open,
              upgrade>>

drvVars == <<watch, drv_pc, http_handlers, stop_permit>>

instVars == <<strategy, state, disk, procs, collecting, status_tx, mirrors,
              inst_ret, inst_ops>>

binVars == <<bin_raw, bin_resp>>

codecVars == <<codec>>

eventVars == <<listeners, registered, invokes_left, inv>>

\* what the pool and the connection loop leave alone while the pool and
\* its output sink live
nonPoolVars == <<sink_open, task_closed, rmVars, fileVars, connVars, drvVars, instVars, binVars, codecVars, eventVars>>

\* what a tracker on its own leaves alone
nonRmVars == <<poolVars, fileVars, connVars, drvVars, instVars, binVars, codecVars, eventVars>>

\* what the file transfer engine leaves alone
nonFileVars == <<poolVars, rmVars, connVars, drvVars, instVars, binVars, codecVars, eventVars>>

\* what the connection manager leaves alone
nonConnVars == <<poolVars, rmVars, drvVars, instVars, binVars, codecVars, eventVars>>

\* what a driver leaves alone
nonDrvVars == <<poolVars, rmVars, fileVars, connVars, instVars, binVars, codecVars, eventVars>>

\* what an instance leaves alone
nonInstVars == <<poolVars, rmVars, fileVars, connVars, drvVars, binVars, codecVars, eventVars>>

\* what the parsing of a binary frame leaves alone
nonBinVars == <<poolVars, rmVars, fileVars, connVars, drvVars, instVars, codecVars, eventVars>>

\* what a text-mode transfer on its own leaves alone
nonCodecVars == <<poolVars, rmVars, fileVars, connVars, drvVars, instVars, binVars, eventVars>>

\* what an event leaves alone
nonEventVars == <<poolVars, rmVars, fileVars, connVars, drvVars, instVars, binVars, codecVars>>

vars == <<poolVars, rmVars, fileVars, connVars, drvVars, instVars, binVars, codecVars, eventVars>>

\* ------------------------------------------------------------------------
\* Protocol v1 dispatcher (protocols/v1/protocol.rs)
\* ------------------------------------------------------------------------

\* what a frame holds: "bad" does not parse, "req" parses to a request
FrameKinds == {"req", "bad"}

\* what handling a parsed request comes to: its handler returns Ok or Err,
\* or its action is one handle_request has no arm for ("todo")
Outcomes == {"ok", "err", "todo"}

Frame(i, k) == [id |-> i, kind |-> k]

NoFrame == [id |-> NilId, kind |-> "none"]

\* ProtocolV1::err
Err(retcode, id, req, via) ==
    [status |-> "error", retcode |-> retcode, id |-> id, req |-> req, via |-> via]

\* ProtocolV1::ok
Ok(id, req, via) ==
    [status |-> "ok", retcode |-> OK, id |-> id, req |-> req, via |-> via]

\* ProtocolV1::process_text_request: the parsed request, or the BAD_REQUEST
\* response with nil id
ParseOk(f) == f.kind # "bad"

BadRequestResp(f, via) == Err(BAD_REQUEST, NilId, f.id, via)

\* ProtocolV1::handle_request, for a request whose handler returned res
HandleRequest(f, res) ==
    IF res = "ok"
    THEN Ok(f.id, f.id, "handler")
    ELSE Err(REQUEST_ERROR, NilId, f.id, "handler")

\* ProtocolV1::handle_text_request
HandleTextRequest(f, res) ==
    IF ParseOk(f) THEN HandleRequest(f, res) ELSE BadRequestResp(f, "handler")

\* the rate-limit answer with a nil id in place of the request's
RateLimitNilId(f) ==
    IF ParseOk(f)
    THEN Err(RATE_LIMIT_EXCEEDED, NilId, f.id, "ratelimit")
    ELSE BadRequestResp(f, "ratelimit")

\* ProtocolV1::handle_text_rate_limit_exceed
HandleTextRateLimitExceed(f) ==
    IF ParseOk(f)
    THEN Err(RATE_LIMIT_EXCEEDED, f.id, f.id, "ratelimit")
    ELSE BadRequestResp(f, "ratelimit")

\* WebsocketConnection::handle_too_many_requests: the Option<Message> it
\* sends on the connection's sender
HandleTooManyRequests(f) ==
    IF V1Enabled THEN <<HandleTextRateLimitExceed(f)>> ELSE <<>>

\* ------------------------------------------------------------------------
\* Task pool (utils/task_pool.rs)
\* ------------------------------------------------------------------------

\* a spawned worker task: its position in the worker loop and the task it
\* holds
Worker(pc, task) == [pc |-> pc, task |-> task]

\* the worker tasks at position pc
WorkersAt(pc) == {r \in BagToSet(wk) : r.pc = pc}

\* wk with one worker moved from state r to state s
MoveWorker(r, s) == (wk (-) SetToBag({r})) (+) SetToBag({s})

\* frames accepted by try_submit whose processing has not ended
InFlight ==
    {task_chan[i].id : i \in 1..Len(task_chan)}
        \cup {r.task.id : r \in WorkersAt("got") \cup WorkersAt("run")}

\* the spawn condition without the max_workers cap
EnsureCondNoCap(a, t) == a = t

\* TaskPool::ensure_workers: the condition under which the CAS is tried
EnsureCond(a, t) == a = t /\ t < MaxWorkers

PoolInit ==
    /\ active_workers = 0
    /\ total_workers = 0
    /\ task_chan = <<>>
    /\ wk = EmptyBag
    /\ sub = [pc |-> "idle", frame |-> NoFrame, a |-> 0, t |-> 0]
    /\ next_frame = 1
    /\ outgoing_rx = <<>>
    /\ sink_open = TRUE
    /\ task_closed = FALSE

\* connection_loop read arm: incoming.next() yields a text frame and
\* try_submit -> ensure_workers loads active_workers
ReadFrame(k) ==
    /\ sub.pc = "idle"
    /\ ~task_closed
    /\ next_frame <= MaxFrames
    /\ sub' = [pc |-> "load_total", frame |-> Frame(next_frame, k),
               a |-> active_workers, t |-> 0]
    /\ next_frame' = next_frame + 1
    /\ UNCHANGED <<active_workers, total_workers, task_chan, wk, outgoing_rx>>
    /\ UNCHANGED nonPoolVars

\* ensure_workers: total_workers.load
LoadTotal ==
    /\ sub.pc = "load_total"
    /\ sub' = [sub EXCEPT !.pc = "cas", !.t = total_workers]
    /\ UNCHANGED <<active_workers, total_workers, task_chan, wk, next_frame,
                   outgoing_rx>>
    /\ UNCHANGED nonPoolVars

\* ensure_workers: the condition, the compare_exchange and spawn_worker
EnsureWorkers ==
    /\ sub.pc = "cas"
    /\ IF EnsureCond(sub.a, sub.t) /\ total_workers = sub.t
       THEN /\ total_workers' = sub.t + 1
            /\ wk' = wk (+) SetToBag({Worker("poll", NoFrame)})
       ELSE UNCHANGED <<total_workers, wk>>
    /\ sub' = [sub EXCEPT !.pc = "yield", !.a = 0, !.t = 0]
    /\ UNCHANGED <<active_workers, task_chan, next_frame, outgoing_rx>>
    /\ UNCHANGED nonPoolVars

\* try_submit after yield_now: task_tx.try_send hands the task to a worker
\* parked in recv
TrySendHandoff ==
    /\ sub.pc = "yield"
    /\ WorkersAt("recv") # {}
    /\ wk' = MoveWorker(Worker("recv", NoFrame), Worker("got", sub.frame))
    /\ sub' = [sub EXCEPT !.pc = "idle", !.frame = NoFrame]
    /\ UNCHANGED <<active_workers, total_workers, task_chan, next_frame, outgoing_rx>>
    /\ UNCHANGED nonPoolVars

\* try_send with no receiver parked: the task goes to the buffer when
\* there is room
TrySendBuffer ==
    /\ sub.pc = "yield"
    /\ WorkersAt("recv") = {}
    /\ Len(task_chan) < MaxPending
    /\ task_chan' = Append(task_chan, sub.frame)
    /\ sub' = [sub EXCEPT !.pc = "idle", !.frame = NoFrame]
    /\ UNCHANGED <<active_workers, total_workers, wk, next_frame, outgoing_rx>>
    /\ UNCHANGED nonPoolVars

\* try_send returns Full: connection_loop calls handle_too_many_requests
TrySendFull ==
    /\ sub.pc = "yield"
    /\ WorkersAt("recv") = {}
    /\ Len(task_chan) >= MaxPending
    /\ outgoing_rx' = outgoing_rx \o HandleTooManyRequests(sub.frame)
    /\ sub' = [sub EXCEPT !.pc = "idle", !.frame = NoFrame]
    /\ UNCHANGED <<active_workers, total_workers, task_chan, wk, next_frame>>
    /\ UNCHANGED nonPoolVars

\* connection_loop write arm: outgoing_rx.recv() yields a message and it is
\* sent on the socket
WriteOutgoing ==
    /\ sub.pc = "idle"
    /\ sink_open
    /\ outgoing_rx # <<>>
    /\ outgoing_rx' = Tail(outgoing_rx)
    /\ UNCHANGED <<active_workers, total_workers, task_chan, wk, sub, next_frame>>
    /\ UNCHANGED nonPoolVars

\* worker loop: task_rx.recv() is polled; a buffered task is taken, else
\* the worker parks. On a closed channel recv returns Err, to a worker that
\* polls and to one that is parked, and the loop breaks
WorkerRecv ==
    /\ IF task_closed
       THEN /\ \E r \in WorkersAt("poll") \cup WorkersAt("recv") :
                   wk' = MoveWorker(r, Worker("exit", NoFrame))
            /\ UNCHANGED task_chan
       ELSE /\ WorkersAt("poll") # {}
            /\ IF task_chan # <<>>
               THEN /\ wk' = MoveWorker(Worker("poll", NoFrame),
                                        Worker("got", Head(task_chan)))
                    /\ task_chan' = Tail(task_chan)
               ELSE /\ wk' = MoveWorker(Worker("poll", NoFrame),
                                        Worker("recv", NoFrame))
                    /\ UNCHANGED task_chan
    /\ UNCHANGED <<active_workers, total_workers, sub, next_frame, outgoing_rx>>
    /\ UNCHANGED nonPoolVars

\* worker loop: active_workers.fetch_add(1)
WorkerActivate(r) ==
    /\ r.pc = "got"
    /\ active_workers' = active_workers + 1
    /\ wk' = MoveWorker(r, Worker("run", r.task))
    /\ UNCHANGED <<total_workers, task_chan, sub, next_frame, outgoing_rx>>
    /\ UNCHANGED nonPoolVars

\* worker loop: processor(task) returns (the handler of a parsed request
\* with Ok or with Err) and output_tx.send(result), which fails when the
\* receiver is gone
WorkerProcess(r, res) ==
    /\ r.pc = "run"
    /\ res # "todo"
    /\ IF sink_open
       THEN /\ outgoing_rx' = Append(outgoing_rx, HandleTextRequest(r.task, res))
            /\ wk' = MoveWorker(r, Worker("dec", NoFrame))
       ELSE /\ wk' = MoveWorker(r, Worker("dec_break", NoFrame))
            /\ UNCHANGED outgoing_rx
    /\ UNCHANGED <<active_workers, total_workers, task_chan, sub, next_frame>>
    /\ UNCHANGED nonPoolVars

\* worker loop: processor(task) reaches todo!() in handle_request and the
\* worker task ends by panic
WorkerPanic(r) ==
    /\ r.pc = "run"
    /\ ParseOk(r.task)
    /\ wk' = wk (-) SetToBag({r})
    /\ UNCHANGED <<active_workers, total_workers, task_chan, sub, next_frame,
                   outgoing_rx>>
    /\ UNCHANGED nonPoolVars

\* worker loop: active_workers.fetch_sub(1), then back to recv, or break
\* after the send that failed
WorkerDeactivate ==
    /\ \E r \in WorkersAt("dec") \cup WorkersAt("dec_break") :
           wk' = MoveWorker(r, Worker(IF r.pc = "dec" THEN "poll" ELSE "exit",
                                      NoFrame))
    /\ active_workers' = active_workers - 1
    /\ UNCHANGED <<total_workers, task_chan, sub, next_frame, outgoing_rx>>
    /\ UNCHANGED nonPoolVars

\* worker loop: the receive times out after idle_timeout; last_active is
\* older than the timeout that just elapsed, so the loop breaks
WorkerTimeout ==
    /\ WorkersAt("recv") # {}
    /\ wk' = MoveWorker(Worker("recv", NoFrame), Worker("exit", NoFrame))
    /\ UNCHANGED <<active_workers, total_workers, task_chan, sub, next_frame,
                   outgoing_rx>>
    /\ UNCHANGED nonPoolVars

\* worker exit: total_workers.fetch_sub(1)
WorkerExit ==
    /\ WorkersAt("exit") # {}
    /\ total_workers' = total_workers - 1
    /\ wk' = wk (-) SetToBag({Worker("exit", NoFrame)})
    /\ UNCHANGED <<active_workers, task_chan, sub, next_frame, outgoing_rx>>
    /\ UNCHANGED nonPoolVars

\* the receiver of the output channel is dropped
CloseSink ==
    /\ sink_open
    /\ sink_open' = FALSE
    /\ UNCHANGED <<active_workers, total_workers, task_chan, wk, sub, next_frame,
                   outgoing_rx, task_closed>>
    /\ UNCHANGED <<rmVars, fileVars, connVars, drvVars, instVars, binVars,
                   codecVars, eventVars>>

\* Drop for TaskPool, by an owner that is not inside try_submit:
\* task_tx.close()
DropPool ==
    /\ sub.pc = "idle"
    /\ ~task_closed
    /\ task_closed' = TRUE
    /\ UNCHANGED <<active_workers, total_workers, task_chan, wk, sub, next_frame,
                   outgoing_rx, sink_open>>
    /\ UNCHANGED <<rmVars, fileVars, connVars, drvVars, instVars, binVars,
                   codecVars, eventVars>>

PoolNext ==
    \/ \E k \in FrameKinds : ReadFrame(k)
    \/ LoadTotal
    \/ EnsureWorkers
    \/ TrySendHandoff
    \/ TrySendBuffer
    \/ TrySendFull
    \/ WriteOutgoing
    \/ WorkerRecv
    \/ \E r \in BagToSet(wk) : WorkerActivate(r)
    \/ \E r \in BagToSet(wk) : \E res \in Outcomes : WorkerProcess(r, res)
    \/ \E r \in BagToSet(wk) : WorkerPanic(r)
    \/ WorkerDeactivate
    \/ WorkerTimeout
    \/ WorkerExit

\* the pool while its owner may drop it and the output receiver may go
PoolEndNext ==
    \/ PoolNext
    \/ CloseSink
    \/ DropPool

\* ------------------------------------------------------------------------
\* Range-remainder tracker (utils/remains.rs)
\* ------------------------------------------------------------------------

\* BTreeMap::insert
MapInsert(m, k, v) == [x \in DOMAIN m \cup {k} |-> IF x = k THEN v ELSE m[x]]

\* BTreeMap::remove
MapRemove(m, k) == [x \in DOMAIN m \ {k} |-> m[x]]

\* BTreeMap::new
EmptyMap == [x \in {} |-> 0]

RECURSIVE MapRemoveAll(_, _)
\* the loop over to_remove at the end of reduce
MapRemoveAll(m, ks) ==
    IF ks = {} THEN m
    ELSE LET k == CHOOSE x \in ks : TRUE
         IN  MapRemoveAll(MapRemove(m, k), ks \ {k})

\* the keys of m from key k on, in ascending order: remains.range(..)
KeysFrom(m, k) == {x \in DOMAIN m : x >= k}

\* U64Remain::new
RemainNew(begin, end) == MapInsert(EmptyMap, begin, end)

RECURSIVE ReduceLoop(_, _, _, _, _)
\* the for loop of U64Remain::reduce over the entries from key k on, with
\* the keys marked so far in to_remove; the loop ends at the first entry
\* that is cut, and the marked keys are removed after it
ReduceLoop(m, from, to, k, to_remove) ==
    IF KeysFrom(m, k) = {} THEN MapRemoveAll(m, to_remove)
    ELSE LET begin == CHOOSE x \in KeysFrom(m, k) : \A y \in KeysFrom(m, k) : x <= y
             end == m[begin]
         IN  IF from <= begin /\ to >= end
             THEN ReduceLoop(m, from, to, begin + 1, to_remove \cup {begin})
             ELSE IF from > begin /\ to < end
             THEN MapRemoveAll(MapInsert(MapInsert(m, to, end), begin, from), to_remove)
             ELSE IF begin < from /\ from < end
             THEN MapRemoveAll(MapInsert(m, begin, from), to_remove)
             ELSE IF begin < to /\ to < end
             THEN MapRemoveAll(MapRemove(MapInsert(m, to, end), begin), to_remove)
             ELSE ReduceLoop(m, from, to, begin + 1, to_remove)

\* U64Remain::reduce
Reduce(m, from, to) == ReduceLoop(m, from, to, 0, {})

RECURSIVE SumLengths(_, _)
SumLengths(m, ks) ==
    IF ks = {} THEN 0
    ELSE LET k == CHOOSE x \in ks : TRUE
         IN  (m[k] - k) + SumLengths(m, ks \ {k})

\* U64Remain::get_remain
GetRemain(m) == SumLengths(m, DOMAIN m)

\* U64Remain::done
Done(m) == DOMAIN m = {}

\* no tracker exists
RmIdle ==
    /\ remains = EmptyMap
    /\ rm_range = <<0, 0>>
    /\ rm_reduced = {}

\* U64Remain::new(begin, end) with begin <= end
RmInit ==
    \E begin \in 0..MaxEnd : \E end \in begin..MaxEnd :
        /\ remains = RemainNew(begin, end)
        /\ rm_range = <<begin, end>>
        /\ rm_reduced = {}

\* U64Remain::reduce(from, to) with from <= to, also past the right edge
RmReduce(from, to) ==
    /\ remains' = Reduce(remains, from, to)
    /\ rm_reduced' = rm_reduced \cup (from..(to - 1))
    /\ UNCHANGED rm_range
    /\ UNCHANGED nonRmVars

RmNext ==
    \E from \in 0..(MaxEnd + 1) : \E to \in from..(MaxEnd + 1) : RmReduce(from, to)

\* ------------------------------------------------------------------------
\* File transfer engine (storage/files.rs)
\* ------------------------------------------------------------------------

\* ROOT, as path segments
ROOT == <<"daemon">>

RECURSIVE NormalizeLoop(_, _)
\* the for_each of normalize_path over the non-empty segments: "." is
\* skipped, ".." pops the stack and is pushed itself, others are pushed
NormalizeLoop(parts, stack) ==
    IF parts = <<>> THEN stack
    ELSE LET part == Head(parts)
         IN  IF part = "."
             THEN NormalizeLoop(Tail(parts), stack)
             ELSE IF part = ".."
             THEN NormalizeLoop(Tail(parts),
                      Append(IF stack = <<>> THEN stack
                             ELSE SubSeq(stack, 1, Len(stack) - 1), part))
             ELSE NormalizeLoop(Tail(parts), Append(stack, part))

\* Files::normalize_path: the stack, each part of which is written followed
\* by '/'
NormalizePath(path) == NormalizeLoop(path, <<>>)

\* Files::validate_path: starts_with on the two normalized strings
ValidatePath(path, root) ==
    LET np == NormalizePath(path)
        nr == NormalizePath(root)
    IN  Len(np) >= Len(nr) /\ SubSeq(np, 1, Len(nr)) = nr

\* the directory entry of a path, and of path + ".tmp"
Final(path) == <<path, "">>

Tmp(path) == <<path, ".tmp">>

\* the upload target outside ROOT, a path inside ROOT
UpPath == <<"up">>

InRootPath == <<"daemon", "a">>

Paths == {UpPath, InRootPath}

\* a path that starts under ROOT and leaves it through two ".." segments
EscPath == <<"daemon", "a", "..", "..", "x">>

\* the paths download_request is called with
DownloadPaths == Paths \cup {EscPath}

Names == {Final(p) : p \in DownloadPaths} \cup {Tmp(p) : p \in DownloadPaths}

\* file.set_len
SetLen(bytes, n) == [i \in 1..n |-> IF i <= Len(bytes) THEN bytes[i] ELSE 0]

\* file.seek(Start(offset)) and file.write_all(data)
WriteAt(bytes, offset, data) ==
    IF data = <<>> THEN bytes
    ELSE LET n == IF Len(bytes) > offset + Len(data) THEN Len(bytes)
                  ELSE offset + Len(data)
         IN  [i \in 1..n |->
                 IF i > offset /\ i <= offset + Len(data) THEN data[i - offset]
                 ELSE IF i <= Len(bytes) THEN bytes[i] ELSE 0]

\* the code units a chunk string is made of
Units == {258}

Strings == UNION {[1..n -> Units] : n \in 0..MaxUnits}

RECURSIVE ToBeBytes(_)
\* data.encode_utf16() and to_be_bytes of every unit
ToBeBytes(str) ==
    IF str = <<>> THEN <<>>
    ELSE <<Head(str) \div 256, Head(str) % 256>> \o ToBeBytes(Tail(str))

\* the SHA-1 of a byte sequence as lowercase hex; distinct sequences have
\* distinct digests
Sha1(bytes) == <<bytes>>

\* Option::None for an expected sha1
NoSha1 == <<>>

\* what Files::get_sha1 returns when a read fails: its loop ends only then,
\* with the digest of what was read before. hashed is empty before the
\* first read and holds the bytes of the file after it: one read returns
\* the whole of a file shorter than the 32768-byte buffer
GetSha1(hashed) == Sha1(IF hashed = <<>> THEN <<>> ELSE hashed[1])

min(a, b) == IF a < b THEN a ELSE b

\* a call's result
ResOk(val) == [kind |-> "ok", val |-> val]

ResErr(msg) == [kind |-> "err", val |-> <<msg>>]

ResPanic == [kind |-> "panic", val |-> <<>>]

NoRes == [kind |-> "none", val |-> <<>>]

\* FileUploadInfo::new; written is history: per byte of the file, the byte
\* the chunks so far put there (-1 for none), the last chunk winning
UploadInfo(size, path, ino, sha1, chunk_size) ==
    [size |-> size, path |-> path, ino |-> ino, sha1 |-> sha1,
     chunk_size |-> chunk_size, remain |-> RemainNew(0, size),
     written |-> [i \in 1..size |-> -1]]

\* FileDownloadInfo::new
DownloadInfo(size, path, ino, sha1) ==
    [size |-> size, path |-> path, ino |-> ino, sha1 |-> sha1,
     remain |-> RemainNew(0, size)]

NoSession == [size |-> 0, path |-> <<>>, ino |-> 0, sha1 |-> NoSha1,
              chunk_size |-> 0, remain |-> EmptyMap, written |-> <<>>]

Callers == {1, 2}

\* existed and quiet are history: what try_exists answered, and whether
\* the call ran with no other call or directory change beside it
IdleCall == [op |-> "none", pc |-> "idle", id |-> 0, offset |-> 0, data |-> <<>>,
             sess |-> NoSession, res |-> NoRes, existed |-> FALSE,
             open_at_start |-> 0, quiet |-> TRUE, hashed |-> <<>>]

\* the calls in progress other than c's stop being quiet
Disturb(cs, c) ==
    [d \in DOMAIN cs |->
        IF d # c /\ cs[d].pc \notin {"idle", "ret"}
        THEN [cs[d] EXCEPT !.quiet = FALSE] ELSE cs[d]]

\* no call other than c's is in progress
Alone(c) == \A d \in DOMAIN calls : d = c \/ calls[d].pc \in {"idle", "ret"}

\* the call of caller c ends with result res
Finish(c, res) ==
    [calls EXCEPT ![c].pc = "ret", ![c].res = res]

\* scc::HashMap::insert_async / remove_async
SessInsert(m, id, info) == [x \in DOMAIN m \cup {id} |-> IF x = id THEN info ELSE m[x]]

SessRemove(m, id) == [x \in DOMAIN m \ {id} |-> m[x]]

\* Files::new, over a directory tree in which InRootPath exists, with ops
\* file operations to come
FilesStart(ops) ==
    /\ upload_sessions = EmptyMap
    /\ download_sessions = EmptyMap
    /\ next_id = 1
    /\ fs = [n \in Names |-> IF n = Final(InRootPath) THEN 1 ELSE 0]
    /\ inodes = <<ToBeBytes(<<258>>)>>
    /\ calls = [c \in Callers |-> IdleCall]
    /\ ops_left = ops

FilesInit == FilesStart(MaxOps)

\* a call is started by caller c
StartCall(c) ==
    /\ calls[c].pc = "idle"
    /\ ops_left > 0
    /\ ops_left' = ops_left - 1

\* a call returns to its caller
Return(c) ==
    /\ calls[c].pc = "ret"
    /\ calls' = [calls EXCEPT ![c] = IdleCall]
    /\ UNCHANGED <<upload_sessions, download_sessions, next_id, fs, inodes, ops_left>>
    /\ UNCHANGED nonFileVars

\* upload_request: upload_sessions.any_async(|_, v| v.base.path == path)
Uploading(path) ==
    \E id \in DOMAIN upload_sessions : upload_sessions[id].path = path

\* upload_request: the path check and the scan for a session on the path
UploadRequest(c, path, size, chunk_size, sha1) ==
    /\ StartCall(c)
    /\ LET call == [IdleCall EXCEPT !.op = "upload_request",
                        !.sess = UploadInfo(size, path, 0, sha1, chunk_size)]
       IN  calls' = [calls EXCEPT ![c] =
               IF ValidatePath(path, ROOT)
               THEN [call EXCEPT !.pc = "ret", !.res = ResErr("invalid path")]
               ELSE IF Uploading(path)
               THEN [call EXCEPT !.pc = "ret", !.res = ResErr("file is uploading")]
               ELSE [call EXCEPT !.pc = "open"]]
    /\ UNCHANGED <<upload_sessions, download_sessions, next_id, fs, inodes>>
    /\ UNCHANGED nonFileVars

\* upload_request: path.tmp is opened with create and truncate, set_len(size)
UploadRequestOpen(c) ==
    /\ calls[c].pc = "open"
    /\ calls[c].op = "upload_request"
    /\ LET tmp == Tmp(calls[c].sess.path)
           ino == IF fs[tmp] = 0 THEN Len(inodes) + 1 ELSE fs[tmp]
           zeros == SetLen(<<>>, calls[c].sess.size)
       IN  /\ fs' = [fs EXCEPT ![tmp] = ino]
           /\ inodes' = IF fs[tmp] = 0 THEN Append(inodes, zeros)
                        ELSE [inodes EXCEPT ![ino] = zeros]
           /\ calls' = [calls EXCEPT ![c].pc = "insert", ![c].sess.ino = ino]
    /\ UNCHANGED <<upload_sessions, download_sessions, next_id, ops_left>>
    /\ UNCHANGED nonFileVars

\* upload_request: Uuid::new_v4 and upload_sessions.insert_async
UploadRequestInsert(c) ==
    /\ calls[c].pc = "insert"
    /\ calls[c].op = "upload_request"
    /\ upload_sessions' = SessInsert(upload_sessions, next_id, calls[c].sess)
    /\ next_id' = next_id + 1
    /\ calls' = [calls EXCEPT ![c].pc = "ret", ![c].id = next_id,
                              ![c].res = ResOk(<<next_id>>)]
    /\ UNCHANGED <<download_sessions, fs, inodes, ops_left>>
    /\ UNCHANGED nonFileVars

\* upload_chunk: the string is turned into bytes, contains_async
UploadChunk(c, id, offset, str) ==
    /\ StartCall(c)
    /\ LET call == [IdleCall EXCEPT !.op = "upload_chunk", !.id = id,
                        !.offset = offset, !.data = ToBeBytes(str)]
       IN  calls' = [calls EXCEPT ![c] =
               IF id \notin DOMAIN upload_sessions
               THEN [call EXCEPT !.pc = "ret",
                        !.res = ResErr("file is not uploading: upload session not found")]
               ELSE [call EXCEPT !.pc = "offset"]]
    /\ UNCHANGED <<upload_sessions, download_sessions, next_id, fs, inodes>>
    /\ UNCHANGED nonFileVars

\* upload_chunk: read_async(..).await.unwrap()? checks offset < size
UploadChunkOffset(c) ==
    /\ calls[c].pc = "offset"
    /\ calls' = IF calls[c].id \notin DOMAIN upload_sessions
                THEN Finish(c, ResPanic)
                ELSE IF calls[c].offset >= upload_sessions[calls[c].id].size
                THEN Finish(c, ResErr("offset out of range"))
                ELSE [calls EXCEPT ![c].pc = "write"]
    /\ UNCHANGED <<upload_sessions, download_sessions, next_id, fs, inodes, ops_left>>
    /\ UNCHANGED nonFileVars

\* upload_chunk: the number of bytes of data written
WrittenLen(chunk_size, data) == min(chunk_size, Len(data))

\* upload_chunk under the session's entry: seek, write_all, reduce,
\* get_remain, and the partial-upload return
UploadChunkWrite(c) ==
    /\ calls[c].pc = "write"
    /\ LET id == calls[c].id
           offset == calls[c].offset
           data == calls[c].data
       IN  IF id \notin DOMAIN upload_sessions
           THEN /\ calls' = Finish(c,
                        ResErr("file is not uploading: upload session not found"))
                /\ UNCHANGED <<upload_sessions, inodes>>
           ELSE LET s == upload_sessions[id]
                    out == SubSeq(data, 1, WrittenLen(s.chunk_size, data))
                    remain == Reduce(s.remain, offset, offset + Len(data))
                    written == [i \in 1..s.size |->
                                   IF i > offset /\ i <= offset + Len(data)
                                   THEN data[i - offset] ELSE s.written[i]]
                IN  /\ inodes' = [inodes EXCEPT ![s.ino] = WriteAt(@, offset, out)]
                    /\ upload_sessions' = [upload_sessions EXCEPT
                           ![id].remain = remain, ![id].written = written]
                    /\ calls' = IF GetRemain(remain) > 0
                                THEN Finish(c, ResOk(<<FALSE, s.size - GetRemain(remain)>>))
                                ELSE [calls EXCEPT ![c].pc = "remove"]
    /\ UNCHANGED <<download_sessions, next_id, fs, ops_left>>
    /\ UNCHANGED nonFileVars

\* upload_chunk: upload_sessions.remove_async once nothing remains
UploadChunkRemove(c) ==
    /\ calls[c].pc = "remove"
    /\ LET id == calls[c].id
       IN  IF id \notin DOMAIN upload_sessions
           THEN /\ calls' = Finish(c,
                        ResErr("file is not uploading: done but upload session not found"))
                /\ UNCHANGED upload_sessions
           ELSE /\ calls' = [calls EXCEPT ![c].pc = "rename",
                                          ![c].sess = upload_sessions[id]]
                /\ upload_sessions' = SessRemove(upload_sessions, id)
    /\ UNCHANGED <<download_sessions, next_id, fs, inodes, ops_left>>
    /\ UNCHANGED nonFileVars

\* upload_chunk: sync_all, rename of path.tmp to path, the file is closed;
\* without an expected sha1 the call returns (true, 0)
UploadChunkRename(c) ==
    /\ calls[c].pc = "rename"
    /\ LET path == calls[c].sess.path
       IN  IF fs[Tmp(path)] = 0
           THEN /\ calls' = Finish(c, ResErr("io error"))
                /\ UNCHANGED fs
           ELSE /\ fs' = [fs EXCEPT ![Final(path)] = fs[Tmp(path)], ![Tmp(path)] = 0]
                /\ calls' = IF calls[c].sess.sha1 = NoSha1
                            THEN Finish(c, ResOk(<<TRUE, 0>>))
                            ELSE [calls EXCEPT ![c].pc = "sha1"]
    /\ UNCHANGED <<upload_sessions, download_sessions, next_id, inodes, ops_left>>
    /\ UNCHANGED nonFileVars

\* get_sha1 in upload_chunk and download_request: the file is open and a
\* read returns its bytes; every later read returns Ok(0) at the end of the
\* file and the loop goes round with nothing changed
Sha1Read(c) ==
    /\ calls[c].pc = "sha1"
    /\ calls[c].hashed = <<>>
    /\ fs[Final(calls[c].sess.path)] # 0
    /\ calls' = [calls EXCEPT ![c].hashed = <<inodes[fs[Final(calls[c].sess.path)]]>>]
    /\ UNCHANGED <<upload_sessions, download_sessions, next_id, fs, inodes, ops_left>>
    /\ UNCHANGED nonFileVars

\* upload_chunk: get_sha1 of the final file fails to open it, or a read
\* fails and get_sha1 returns; the digest is compared with the expected
\* sha1
UploadChunkSha1(c) ==
    /\ calls[c].pc = "sha1"
    /\ calls[c].op = "upload_chunk"
    /\ LET path == calls[c].sess.path
           calculated_sha1 == GetSha1(calls[c].hashed)
       IN  IF calls[c].hashed = <<>> /\ fs[Final(path)] = 0
           THEN calls' = [Finish(c, ResErr("io error")) EXCEPT ![c].hashed = <<>>]
           ELSE calls' = [(IF calls[c].sess.sha1 # calculated_sha1
                           THEN Finish(c, ResErr("sha1 mismatch"))
                           ELSE Finish(c, ResOk(<<TRUE, 0>>)))
                          EXCEPT ![c].hashed = <<>>]
    /\ UNCHANGED <<upload_sessions, download_sessions, next_id, fs, inodes, ops_left>>
    /\ UNCHANGED nonFileVars

\* upload_cancel: upload_sessions.remove_async
UploadCancel(c, id) ==
    /\ StartCall(c)
    /\ LET call == [IdleCall EXCEPT !.op = "upload_cancel", !.id = id]
       IN  IF id \notin DOMAIN upload_sessions
           THEN /\ calls' = [calls EXCEPT ![c] =
                        [call EXCEPT !.pc = "ret", !.res = ResOk(<<FALSE>>)]]
                /\ UNCHANGED upload_sessions
           ELSE /\ calls' = [calls EXCEPT ![c] =
                        [call EXCEPT !.pc = "delete", !.sess = upload_sessions[id]]]
                /\ upload_sessions' = SessRemove(upload_sessions, id)
    /\ UNCHANGED <<download_sessions, next_id, fs, inodes>>
    /\ UNCHANGED nonFileVars

\* upload_cancel: the file is closed and path.tmp deleted
UploadCancelDelete(c) ==
    /\ calls[c].pc = "delete"
    /\ fs' = [fs EXCEPT ![Tmp(calls[c].sess.path)] = 0]
    /\ calls' = Finish(c, ResOk(<<TRUE>>))
    /\ UNCHANGED <<upload_sessions, download_sessions, next_id, inodes, ops_left>>
    /\ UNCHANGED nonFileVars

\* the sessions open on a path: the count download_request's scan makes
FileSessions(path) ==
    Cardinality({id \in DOMAIN download_sessions : download_sessions[id].path = path})

\* download_request: validate_path and try_exists
DownloadRequest(c, path) ==
    /\ StartCall(c)
    /\ LET call == [IdleCall EXCEPT !.op = "download_request",
                        !.sess = DownloadInfo(0, path, 0, NoSha1) @@ NoSession,
                        !.existed = fs[Final(path)] # 0,
                        !.open_at_start = FileSessions(path),
                        !.quiet = Alone(c)]
       IN  calls' = Disturb([calls EXCEPT ![c] =
               IF ~ValidatePath(path, ROOT)
               THEN [call EXCEPT !.pc = "ret", !.res = ResErr("invalid path")]
               ELSE IF fs[Final(path)] # 0
               THEN [call EXCEPT !.pc = "ret", !.res = ResErr("file not found")]
               ELSE [call EXCEPT !.pc = "scan"]], c)
    /\ UNCHANGED <<upload_sessions, download_sessions, next_id, fs, inodes>>
    /\ UNCHANGED nonFileVars

\* download_request: file_sessions > file_download_sessions
CapReached(file_sessions) == file_sessions > DownloadCap

\* download_request: the scan of download_sessions and the cap check
DownloadRequestScan(c) ==
    /\ calls[c].pc = "scan"
    /\ calls' = IF CapReached(FileSessions(calls[c].sess.path))
                THEN Finish(c, ResErr("max download sessions of file reached"))
                ELSE [calls EXCEPT ![c].pc = "sha1"]
    /\ UNCHANGED <<upload_sessions, download_sessions, next_id, fs, inodes, ops_left>>
    /\ UNCHANGED nonFileVars

\* download_request: get_sha1 of the path fails to open it, or a read fails
\* and get_sha1 returns
DownloadRequestSha1(c) ==
    /\ calls[c].pc = "sha1"
    /\ calls[c].op = "download_request"
    /\ LET path == calls[c].sess.path
       IN  IF calls[c].hashed = <<>> /\ fs[Final(path)] = 0
           THEN calls' = Finish(c, ResErr("io error"))
           ELSE calls' = [calls EXCEPT ![c].pc = "open",
                                       ![c].sess.sha1 = GetSha1(calls[c].hashed),
                                       ![c].hashed = <<>>]
    /\ UNCHANGED <<upload_sessions, download_sessions, next_id, fs, inodes, ops_left>>
    /\ UNCHANGED nonFileVars

\* download_request: File::open and metadata().len()
DownloadRequestOpen(c) ==
    /\ calls[c].pc = "open"
    /\ calls[c].op = "download_request"
    /\ LET path == calls[c].sess.path
       IN  calls' = IF fs[Final(path)] = 0
                    THEN Finish(c, ResErr("io error"))
                    ELSE [calls EXCEPT ![c].pc = "insert",
                             ![c].sess.ino = fs[Final(path)],
                             ![c].sess.size = Len(inodes[fs[Final(path)]]),
                             ![c].sess.remain =
                                 RemainNew(0, Len(inodes[fs[Final(path)]]))]
    /\ UNCHANGED <<upload_sessions, download_sessions, next_id, fs, inodes, ops_left>>
    /\ UNCHANGED nonFileVars

\* download_request: Uuid::new_v4 and download_sessions.insert_async
DownloadRequestInsert(c) ==
    /\ calls[c].pc = "insert"
    /\ calls[c].op = "download_request"
    /\ download_sessions' = SessInsert(download_sessions, next_id, calls[c].sess)
    /\ next_id' = next_id + 1
    /\ calls' = [calls EXCEPT ![c].pc = "ret", ![c].id = next_id,
                    ![c].res = ResOk(<<next_id, calls[c].sess.size, calls[c].sess.sha1>>)]
    /\ UNCHANGED <<upload_sessions, fs, inodes, ops_left>>
    /\ UNCHANGED nonFileVars

\* download_close: download_sessions.remove_async
DownloadClose(c, id) ==
    /\ StartCall(c)
    /\ LET call == [IdleCall EXCEPT !.op = "download_close", !.id = id, !.pc = "ret"]
       IN  calls' = Disturb([calls EXCEPT ![c] =
               IF id \in DOMAIN download_sessions
               THEN [call EXCEPT !.res = ResOk(<<>>)]
               ELSE [call EXCEPT !.res = ResErr("download id not found")]], c)
    /\ download_sessions' = SessRemove(download_sessions, id)
    /\ UNCHANGED <<upload_sessions, next_id, fs, inodes>>
    /\ UNCHANGED nonFileVars

\* another process creates a file under ROOT
EnvCreate(path, bytes) ==
    /\ ops_left > 0
    /\ fs[Final(path)] = 0
    /\ ops_left' = ops_left - 1
    /\ fs' = [fs EXCEPT ![Final(path)] = Len(inodes) + 1]
    /\ inodes' = Append(inodes, bytes)
    /\ calls' = Disturb(calls, 0)
    /\ UNCHANGED <<upload_sessions, download_sessions, next_id>>
    /\ UNCHANGED nonFileVars

\* another process removes a file under ROOT
EnvRemove(path) ==
    /\ ops_left > 0
    /\ fs[Final(path)] # 0
    /\ ops_left' = ops_left - 1
    /\ fs' = [fs EXCEPT ![Final(path)] = 0]
    /\ calls' = Disturb(calls, 0)
    /\ UNCHANGED <<upload_sessions, download_sessions, next_id, inodes>>
    /\ UNCHANGED nonFileVars

\* the session ids a client can name: those handed out, and one more
KnownIds == 1..next_id

\* the expected digests a client sends with an upload
Sha1Inputs == {NoSha1, Sha1(<<>>), Sha1(ToBeBytes(<<258>>))}

\* ServerBound file operations of one client, with chunks of any length up
\* to MaxUnits at any offset up to MaxSize
UploadNext ==
    \/ \E size \in 0..MaxSize, chunk_size \in {2, 4} :
           UploadRequest(1, UpPath, size, chunk_size, NoSha1)
    \/ UploadRequestOpen(1)
    \/ UploadRequestInsert(1)
    \/ \E id \in KnownIds, offset \in 0..MaxSize, str \in Strings :
           UploadChunk(1, id, offset, str)
    \/ UploadChunkOffset(1)
    \/ UploadChunkWrite(1)
    \/ UploadChunkRemove(1)
    \/ UploadChunkRename(1)
    \/ \E id \in KnownIds : UploadCancel(1, id)
    \/ UploadCancelDelete(1)
    \/ Return(1)

\* upload operations of two clients on the paths, one chunk covering a file
FilesNext ==
    \E c \in Callers :
        \/ \E path \in Paths, size \in {0, 2}, sha1 \in Sha1Inputs :
               UploadRequest(c, path, size, 2, sha1)
        \/ UploadRequestOpen(c)
        \/ UploadRequestInsert(c)
        \/ \E id \in KnownIds, str \in {<<258>>} : UploadChunk(c, id, 0, str)
        \/ UploadChunkOffset(c)
        \/ UploadChunkWrite(c)
        \/ UploadChunkRemove(c)
        \/ UploadChunkRename(c)
        \/ Sha1Read(c)
        \/ UploadChunkSha1(c)
        \/ \E id \in KnownIds : UploadCancel(c, id)
        \/ UploadCancelDelete(c)
        \/ Return(c)

\* download operations of two clients, beside a process that creates and
\* removes the files
DownloadNext ==
    \/ \E c \in Callers :
        \/ \E path \in DownloadPaths : DownloadRequest(c, path)
        \/ DownloadRequestScan(c)
        \/ Sha1Read(c)
        \/ DownloadRequestSha1(c)
        \/ DownloadRequestOpen(c)
        \/ DownloadRequestInsert(c)
        \/ \E id \in KnownIds : DownloadClose(c, id)
        \/ Return(c)
    \/ \E path \in {InRootPath, EscPath} : EnvCreate(path, ToBeBytes(<<258>>))
    \/ \E path \in {InRootPath, EscPath} : EnvRemove(path)

\* one client that uploads a file of one chunk with an expected digest and
\* asks for downloads, beside the processes that create and remove files
HashNext ==
    \/ \E sha1 \in Sha1Inputs : UploadRequest(1, UpPath, 2, 2, sha1)
    \/ UploadRequestOpen(1)
    \/ UploadRequestInsert(1)
    \/ \E id \in KnownIds : UploadChunk(1, id, 0, <<258>>)
    \/ UploadChunkOffset(1)
    \/ UploadChunkWrite(1)
    \/ UploadChunkRemove(1)
    \/ UploadChunkRename(1)
    \/ Sha1Read(1)
    \/ UploadChunkSha1(1)
    \/ \E path \in DownloadPaths : DownloadRequest(1, path)
    \/ DownloadRequestScan(1)
    \/ DownloadRequestSha1(1)
    \/ DownloadRequestOpen(1)
    \/ DownloadRequestInsert(1)
    \/ Return(1)
    \/ \E path \in {InRootPath, EscPath} : EnvCreate(path, ToBeBytes(<<258>>))
    \/ \E path \in {InRootPath, EscPath} : EnvRemove(path)

\* ------------------------------------------------------------------------
\* Connection manager (drivers/websocket/connection.rs)
\* ------------------------------------------------------------------------

\* the upgraded sockets; the requests of connection c are the file
\* operations of caller c
Conns == Callers

\* close_code::NORMAL
NORMAL == 1000

\* the Close frame of the cancel arm
DaemonClosed == [code |-> NORMAL, reason |-> "daemon closed"]

\* the positions at which connection_loop is running
LoopPcs == {"select", "read", "write", "cancel"}

\* the positions at which serve_connection has returned
EndPcs == {"done", "failed"}

\* StatusCode::UNAUTHORIZED
UNAUTHORIZED == 401

\* StatusCode::SWITCHING_PROTOCOLS
SWITCHING_PROTOCOLS == 101

\* AuthConfig::main_token, as a string of characters
MainToken == <<"m">>

\* a token that JwtClaims::from_token decodes under the configured secret,
\* audience and issuer
ValidJwt == <<"j">>

\* the values of the token query parameter: the main token and a valid JWT,
\* bare and padded with blanks, and a string that is neither
Tokens ==
    {MainToken, MainToken \o <<" ">>, <<" ">> \o MainToken, ValidJwt,
     ValidJwt \o <<" ">>, <<"x">>, <<>>}

\* str::trim
Trim(str) ==
    LET blank(i) == str[i] = " "
        keep == {i \in DOMAIN str : ~blank(i)}
        first == CHOOSE i \in keep : \A j \in keep : i <= j
        last == CHOOSE i \in keep : \A j \in keep : j <= i
    IN  IF keep = {} THEN <<>> ELSE SubSeq(str, first, last)

\* JwtClaims::from_token: the token is decoded as given; what the perms and
\* the jti of a decoded token hold is left open
FromToken(token) ==
    IF token = ValidJwt
    THEN ResOk([kind |-> "jwt", perms |-> <<>>, jti |-> TRUE])
    ELSE ResErr("InvalidToken")

\* JwtClaims::default(), which verify_connection returns for the main token:
\* the claims of a derived Default (empty perms, empty jti), or claims with a
\* jti that parses and the permission string "*" or "**". A permission
\* string is the sequence of its permissions, a permission the sequence of
\* its segments
DefaultClaims ==
    {[kind |-> "default", perms |-> <<>>, jti |-> FALSE],
     [kind |-> "default", perms |-> <<<<"*">>>>, jti |-> TRUE],
     [kind |-> "default", perms |-> <<<<"**">>>>, jti |-> TRUE]}

\* WebsocketConnection::verify_connection; default is JwtClaims::default()
VerifyConnection(query, default) ==
    IF query = <<>>
    THEN ResErr("Missing required token field")
    ELSE IF MainToken = Trim(query[1])
         THEN ResOk(default)
         ELSE FromToken(query[1])

\* middle_wares::verify_connection
MiddleWareVerify(query) == ResOk([kind |-> "none", perms |-> <<>>, jti |-> TRUE])

\* Permission::matches: other is turned into a pattern, segment by segment:
\* "**" takes one or more words, "*" one word, another segment itself, and
\* words after the pattern are allowed; the words of self are the input
RECURSIVE Matches(_, _)
Matches(self, other) ==
    IF other = <<>> THEN TRUE
    ELSE IF self = <<>> THEN FALSE
    ELSE IF Head(other) = "**"
         THEN \E k \in 1..Len(self) :
                 Matches(SubSeq(self, k + 1, Len(self)), Tail(other))
    ELSE IF Head(other) = "*" THEN Matches(Tail(self), Tail(other))
    ELSE Head(self) = Head(other) /\ Matches(Tail(self), Tail(other))

\* Permissions::matches: any member matches
PermissionsMatches(permissions, other) ==
    \E i \in DOMAIN permissions : Matches(permissions[i], other)

\* WebsocketContext::new: Permissions::from_str refuses the empty string and
\* a list with an empty permission, Uuid::parse_str a jti that is no UUID
ContextNew(claims) ==
    IF claims.perms = <<>> \/ \E i \in DOMAIN claims.perms : claims.perms[i] = <<>>
    THEN ResErr("invalid permissions")
    ELSE IF ~claims.jti THEN ResErr("invalid jti")
    ELSE ResOk(claims.perms)

\* the answer to a request that verify_connection refused: 401 with the
\* reason as its text
ErrResponse(err) == [status |-> UNAUTHORIZED, body |-> err.val]

\* no upgrade request yet
NoUpgrade ==
    [query |-> <<>>, status |-> 0, body |-> <<>>,
     claims |-> [kind |-> "none", perms |-> <<>>, jti |-> TRUE], ctx |-> <<>>]

\* WsConnManager::new, before any upgrade
ConnInit ==
    /\ connections = {}
    /\ id_ctr = 0
    /\ conn_pc = [c \in Conns |-> "none"]
    /\ conn_id = [c \in Conns |-> -1]
    /\ peer_open = [c \in Conns |-> TRUE]
    /\ conn_out = [c \in Conns |-> 0]
    /\ conn_woken = [c \in Conns |-> FALSE]
    /\ close_sent = [c \in Conns |-> <<>>]
    /\ conn_created = [c \in Conns |-> {}]
    /\ stop_fired = FALSE
    /\ stop_open = {}
    /\ upgrade = [c \in Conns |-> NoUpgrade]

\* websocket_upgrade_handler: the request is checked; a refused request is
\* answered with the error response and nothing is spawned; otherwise the
\* upgrade task is spawned and pushed to ws_connections, and the answer is
\* 101. The call names WebsocketConnection::verify_connection, while the
\* function with the parameters and the result of the call is the one of
\* middle_wares: verifier says which of the two checks the build runs.
\* upgraded says whether hyper::upgrade::on succeeds in the spawned task,
\* default is JwtClaims::default()
UpgradeRequest(c, query, verifier, upgraded, default) ==
    /\ conn_pc[c] = "none"
    /\ LET res == IF verifier = "behavior"
                  THEN VerifyConnection(query, default)
                  ELSE MiddleWareVerify(query)
       IN  IF res.kind = "err"
           THEN /\ upgrade' = [upgrade EXCEPT ![c] =
                       [query |-> query] @@ ErrResponse(res) @@ NoUpgrade]
                /\ conn_pc' = [conn_pc EXCEPT ![c] = "refused"]
           ELSE /\ upgrade' = [upgrade EXCEPT ![c] =
                       [query |-> query, status |-> SWITCHING_PROTOCOLS,
                        claims |-> res.val] @@ NoUpgrade]
                /\ conn_pc' = [conn_pc EXCEPT ![c] =
                       IF upgraded THEN "upgraded" ELSE "no_upgrade"]
    /\ UNCHANGED <<connections, id_ctr, conn_id, peer_open, conn_out, conn_woken,
                   close_sent, conn_created, stop_fired, stop_open>>
    /\ UNCHANGED <<nonConnVars, fileVars>>

\* handle_ws_connection and serve_connection: the outgoing channel,
\* id.fetch_add(1), TaskPool::new
ServeConnection(c) ==
    /\ conn_pc[c] = "upgraded"
    /\ conn_pc' = [conn_pc EXCEPT ![c] = "ctx"]
    /\ conn_id' = [conn_id EXCEPT ![c] = id_ctr]
    /\ id_ctr' = id_ctr + 1
    /\ UNCHANGED <<connections, peer_open, conn_out, conn_woken, close_sent,
                   conn_created, stop_fired, stop_open, upgrade>>
    /\ UNCHANGED <<nonConnVars, fileVars>>

\* serve_connection: WebsocketContext::new(..)?, connections.insert, and
\* the first select of connection_loop. For the claims of the main token
\* the context is the one WebsocketContext::new builds; for the claims of a
\* decoded token ctx_ok says whether it builds one
ServeInsert(c, ctx_ok) ==
    /\ conn_pc[c] = "ctx"
    /\ LET claims == upgrade[c].claims
           known == claims.kind = "default"
       IN  /\ known => ctx_ok = (ContextNew(claims).kind = "ok")
           /\ upgrade' = [upgrade EXCEPT ![c].ctx =
                  IF known /\ ctx_ok THEN <<ContextNew(claims).val>> ELSE <<>>]
    /\ IF ctx_ok
       THEN /\ connections' = connections \cup {conn_id[c]}
            /\ conn_pc' = [conn_pc EXCEPT ![c] = "select"]
       ELSE /\ conn_pc' = [conn_pc EXCEPT ![c] = "failed"]
            /\ UNCHANGED connections
    /\ UNCHANGED <<id_ctr, conn_id, peer_open, conn_out, conn_woken, close_sent,
                   conn_created, stop_fired, stop_open>>
    /\ UNCHANGED <<nonConnVars, fileVars>>

\* read arm: incoming.next() is ready; the other futures of the select,
\* the Notified among them, are dropped. A frame goes to try_submit, the end
\* of the stream breaks the loop
LoopRead(c) ==
    /\ conn_pc[c] = "select"
    /\ conn_pc' = [conn_pc EXCEPT ![c] = IF peer_open[c] THEN "read" ELSE "loop_ok"]
    /\ conn_woken' = [conn_woken EXCEPT ![c] = FALSE]
    /\ UNCHANGED <<connections, id_ctr, conn_id, peer_open, conn_out, close_sent,
                   conn_created, stop_fired, stop_open, upgrade>>
    /\ UNCHANGED <<nonConnVars, fileVars>>

\* read arm: try_submit returns; on Full handle_too_many_requests sends the
\* answer to the outgoing channel; the loop selects again
LoopSubmit(c, full) ==
    /\ conn_pc[c] = "read"
    /\ conn_pc' = [conn_pc EXCEPT ![c] = "select"]
    /\ conn_out' = [conn_out EXCEPT ![c] = IF full THEN min(@ + 1, MaxOut) ELSE @]
    /\ UNCHANGED <<connections, id_ctr, conn_id, peer_open, conn_woken, close_sent,
                   conn_created, stop_fired, stop_open, upgrade>>
    /\ UNCHANGED <<nonConnVars, fileVars>>

\* write arm: outgoing_rx.recv() is ready; the other futures are dropped
LoopWrite(c) ==
    /\ conn_pc[c] = "select"
    /\ conn_out[c] > 0
    /\ conn_pc' = [conn_pc EXCEPT ![c] = "write"]
    /\ conn_out' = [conn_out EXCEPT ![c] = @ - 1]
    /\ conn_woken' = [conn_woken EXCEPT ![c] = FALSE]
    /\ UNCHANGED <<connections, id_ctr, conn_id, peer_open, close_sent,
                   conn_created, stop_fired, stop_open, upgrade>>
    /\ UNCHANGED <<nonConnVars, fileVars>>

\* write arm: outgoing.send(m).await? returns; an error leaves
\* connection_loop and, through the ? of serve_connection, serve_connection
LoopWriteDone(c) ==
    /\ conn_pc[c] = "write"
    /\ conn_pc' = [conn_pc EXCEPT ![c] = IF peer_open[c] THEN "select" ELSE "failed"]
    /\ UNCHANGED <<connections, id_ctr, conn_id, peer_open, conn_out, conn_woken,
                   close_sent, conn_created, stop_fired, stop_open, upgrade>>
    /\ UNCHANGED <<nonConnVars, fileVars>>

\* cancel arm: cancel_token.notified() is ready
LoopCancel(c) ==
    /\ conn_pc[c] = "select"
    /\ conn_woken[c]
    /\ conn_pc' = [conn_pc EXCEPT ![c] = "cancel"]
    /\ conn_woken' = [conn_woken EXCEPT ![c] = FALSE]
    /\ UNCHANGED <<connections, id_ctr, conn_id, peer_open, conn_out, close_sent,
                   conn_created, stop_fired, stop_open, upgrade>>
    /\ UNCHANGED <<nonConnVars, fileVars>>

\* cancel arm: outgoing.send(Close{NORMAL, "daemon closed"}).await? and break
LoopCancelSend(c) ==
    /\ conn_pc[c] = "cancel"
    /\ IF peer_open[c]
       THEN /\ close_sent' = [close_sent EXCEPT ![c] = Append(@, DaemonClosed)]
            /\ conn_pc' = [conn_pc EXCEPT ![c] = "loop_ok"]
       ELSE /\ conn_pc' = [conn_pc EXCEPT ![c] = "failed"]
            /\ UNCHANGED close_sent
    /\ UNCHANGED <<connections, id_ctr, conn_id, peer_open, conn_out, conn_woken,
                   conn_created, stop_fired, stop_open, upgrade>>
    /\ UNCHANGED <<nonConnVars, fileVars>>

\* serve_connection after connection_loop returned Ok: connections.remove
ServeRemove(c) ==
    /\ conn_pc[c] = "loop_ok"
    /\ connections' = connections \ {conn_id[c]}
    /\ conn_pc' = [conn_pc EXCEPT ![c] = "done"]
    /\ UNCHANGED <<id_ctr, conn_id, peer_open, conn_out, conn_woken, close_sent,
                   conn_created, stop_fired, stop_open, upgrade>>
    /\ UNCHANGED <<nonConnVars, fileVars>>

\* the peer closes the socket or the network drops it
PeerClose(c) ==
    /\ conn_pc[c] \in LoopPcs
    /\ peer_open[c]
    /\ peer_open' = [peer_open EXCEPT ![c] = FALSE]
    /\ UNCHANGED <<connections, id_ctr, conn_pc, conn_id, conn_out, conn_woken,
                   close_sent, conn_created, stop_fired, stop_open, upgrade>>
    /\ UNCHANGED <<nonConnVars, fileVars>>

\* GracefulShutdown::watch: stop_notify.notify_waiters() wakes the Notified
\* futures that exist, those of the loops parked on their select
NotifyWaiters ==
    /\ ~stop_fired
    /\ stop_fired' = TRUE
    /\ stop_open' = {c \in Conns : conn_pc[c] \in LoopPcs}
    /\ conn_woken' = [c \in Conns |-> conn_pc[c] = "select"]
    /\ UNCHANGED <<connections, id_ctr, conn_pc, conn_id, peer_open, conn_out,
                   close_sent, conn_created, upgrade>>
    /\ UNCHANGED <<nonConnVars, fileVars>>

\* a worker of connection c hands the result of a file operation to the
\* outgoing channel
HandlerReturn(c) ==
    /\ calls[c].pc = "ret"
    /\ calls' = [calls EXCEPT ![c] = IdleCall]
    /\ conn_out' = [conn_out EXCEPT ![c] = min(@ + 1, MaxOut)]
    /\ conn_created' = [conn_created EXCEPT ![c] =
           IF calls[c].op = "upload_request" /\ calls[c].res.kind = "ok"
           THEN @ \cup {calls[c].id} ELSE @]
    /\ UNCHANGED <<upload_sessions, download_sessions, next_id, fs, inodes, ops_left>>
    /\ UNCHANGED <<connections, id_ctr, conn_pc, conn_id, peer_open, conn_woken,
                   close_sent, stop_fired, stop_open, upgrade>>
    /\ UNCHANGED nonConnVars

\* connections being served, their peers, their upload requests and the
\* shutdown notifier
ConnNext ==
    \/ \E c \in Conns :
        \/ \E default \in DefaultClaims :
              UpgradeRequest(c, <<ValidJwt>>, "behavior", TRUE, default)
        \/ ServeConnection(c)
        \/ \E ctx_ok \in BOOLEAN : ServeInsert(c, ctx_ok)
        \/ LoopRead(c)
        \/ \E full \in BOOLEAN : LoopSubmit(c, full)
        \/ LoopWrite(c)
        \/ LoopWriteDone(c)
        \/ LoopCancel(c)
        \/ LoopCancelSend(c)
        \/ ServeRemove(c)
        \/ PeerClose(c)
        \/ conn_pc[c] \in LoopPcs /\ UploadRequest(c, UpPath, 0, 2, NoSha1)
        \/ UploadRequestOpen(c)
        \/ UploadRequestInsert(c)
        \/ \E id \in conn_created[c] : conn_pc[c] \in LoopPcs /\ UploadCancel(c, id)
        \/ UploadCancelDelete(c)
        \/ HandlerReturn(c)
    \/ NotifyWaiters

\* upgrade requests without a token parameter and with every token, under
\* either check, and the connections they lead to
UpgradeNext ==
    \E c \in Conns :
        \/ \E query \in {<<>>} \cup {<<t>> : t \in Tokens}, verifier \in {"behavior", "middle_wares"},
              upgraded \in BOOLEAN, default \in DefaultClaims :
                  UpgradeRequest(c, query, verifier, upgraded, default)
        \/ ServeConnection(c)
        \/ \E ctx_ok \in BOOLEAN : ServeInsert(c, ctx_ok)
        \/ LoopRead(c)
        \/ \E full \in BOOLEAN : LoopSubmit(c, full)
        \/ ServeRemove(c)
        \/ PeerClose(c)

\* ------------------------------------------------------------------------
\* Driver and shutdown watcher (drivers/websocket/driver.rs,
\* drivers/graceful_shutdown.rs, remote/drivers/graceful_shutdown.rs)
\* ------------------------------------------------------------------------

\* the HTTP connections that listener.accept() hands to run
HttpTasks == 1..MaxHttp

\* WsDriver::new, run by one of the given watchers: "daemon" is the
\* GracefulShutdown::watch of the daemon crate, which notifies the stop_notify
\* of the application state; "remote" is the one of the remote module, which
\* notifies the stop_token() of each driver. Nothing is accepted yet and the
\* driver's own stop_notification holds no permit
DrvStart(watchers) ==
    /\ watch \in watchers
    /\ drv_pc = "select"
    /\ http_handlers = [t \in HttpTasks |-> "none"]
    /\ stop_permit = FALSE

\* run, accept arm: the connection is served by a spawned task that selects
\* between the connection and cancel_token4http.notified()
DrvAccept(t) ==
    /\ drv_pc = "select"
    /\ http_handlers[t] = "none"
    /\ http_handlers' = [http_handlers EXCEPT ![t] = "serving"]
    /\ UNCHANGED <<watch, drv_pc, stop_permit>>
    /\ UNCHANGED nonDrvVars

\* run, accept arm: accept failed, run sleeps for a second outside its select
DrvAcceptErr ==
    /\ drv_pc = "select"
    /\ drv_pc' = "sleep"
    /\ UNCHANGED <<watch, http_handlers, stop_permit>>
    /\ UNCHANGED nonDrvVars

\* run: the sleep is over, continue to the next select
DrvWake ==
    /\ drv_pc = "sleep"
    /\ drv_pc' = "select"
    /\ UNCHANGED <<watch, http_handlers, stop_permit>>
    /\ UNCHANGED nonDrvVars

\* run, stop arm: stop_notify.notified() is ready; cancel_token.notify_one()
\* wakes one task that waits on the cancel notifier, which returns; break
DrvStop ==
    /\ drv_pc = "select"
    /\ stop_permit
    /\ stop_permit' = FALSE
    /\ drv_pc' = "join_http"
    /\ IF \E t \in HttpTasks : http_handlers[t] = "serving"
       THEN \E t \in HttpTasks :
               /\ http_handlers[t] = "serving"
               /\ http_handlers' = [http_handlers EXCEPT ![t] = "cancelled"]
       ELSE UNCHANGED http_handlers
    /\ UNCHANGED watch
    /\ UNCHANGED nonDrvVars

\* the connection arm of a task: the client has closed its HTTP connection
HttpFinish(t) ==
    /\ http_handlers[t] = "serving"
    /\ http_handlers' = [http_handlers EXCEPT ![t] = "finished"]
    /\ UNCHANGED <<watch, drv_pc, stop_permit>>
    /\ UNCHANGED nonDrvVars

\* run: every handler of http_handlers has been awaited
DrvJoinHttp ==
    /\ drv_pc = "join_http"
    /\ \A t \in HttpTasks : http_handlers[t] # "serving"
    /\ drv_pc' = "join_ws"
    /\ UNCHANGED <<watch, http_handlers, stop_permit>>
    /\ UNCHANGED nonDrvVars

\* run: every handler of ws_connections has been awaited; run returns
DrvJoinWs ==
    /\ drv_pc = "join_ws"
    /\ \A c \in Conns : conn_pc[c] \in {"none", "refused", "no_upgrade"} \cup EndPcs
    /\ drv_pc' = "returned"
    /\ UNCHANGED <<watch, http_handlers, stop_permit>>
    /\ UNCHANGED nonDrvVars

\* GracefulShutdown::watch of the remote module: notify_one() on the stop
\* token of each driver; the permit stays until a notified() takes it
NotifyTokens ==
    /\ watch = "remote"
    /\ ~stop_fired
    /\ stop_fired' = TRUE
    /\ stop_permit' = TRUE
    /\ UNCHANGED <<watch, drv_pc, http_handlers>>
    /\ UNCHANGED <<connections, id_ctr, conn_pc, conn_id, peer_open, conn_out,
                   conn_woken, close_sent, conn_created, stop_open, upgrade>>
    /\ UNCHANGED <<poolVars, rmVars, fileVars, instVars, binVars, codecVars, eventVars>>

\* one driver, the HTTP connections of its clients and the watcher
DrvNext ==
    \/ \E t \in HttpTasks :
        \/ DrvAccept(t)
        \/ HttpFinish(t)
    \/ DrvAcceptErr
    \/ DrvWake
    \/ DrvStop
    \/ DrvJoinHttp
    \/ DrvJoinWs
    \/ watch = "daemon" /\ NotifyWaiters
    \/ NotifyTokens

\* ------------------------------------------------------------------------
\* Instance, strategies and process supervisor (management/instance.rs,
\* management/strategy/strategies.rs, management/comm/process.rs)
\* ------------------------------------------------------------------------

Procs == 1..MaxProcs

\* what a line of output matches: a line is the set of the patterns found
\* in it
Lines == SUBSET {"done", "stopping", "crashed"}

\* InstanceProcessStrategy::on_process_start: the status it sends
OnProcessStart(s) == IF s = "minecraft" THEN "starting" ELSE "running"

\* InstanceProcessStrategy::on_line_received: the statuses it sends
OnLineReceived(s, line) ==
    IF s # "minecraft" THEN <<>>
    ELSE IF "done" \in line THEN <<"running">>
    ELSE IF "stopping" \in line THEN <<"stopping">>
    ELSE IF "crashed" \in line THEN <<"crashed">>
    ELSE <<>>

\* a child that was never spawned
NoProcess ==
    [child |-> "none", task |-> "none", is_mc_server |-> FALSE,
     term_signal |-> "none", term_rx |-> <<>>, exited |-> FALSE,
     input_rx |-> 0, stdin |-> 0, signal |-> <<>>]

\* InstManager::init and Instance::new: the strategy follows the config
\* read at start-up; InstanceState::new leaves last_config_modified empty,
\* so the file on disk counts as changed
InstanceNew(strategies, ops) ==
    /\ strategy \in strategies
    /\ state = [config |-> IF strategy = "minecraft" THEN "mc" ELSE "none",
                status |-> "stopped", process |-> <<>>, at |-> 0]
    /\ disk = [instance_type |-> state.config, uuid_ok |-> TRUE,
               changed |-> TRUE]
    /\ procs = [p \in Procs |-> NoProcess]
    /\ collecting = {}
    /\ status_tx = <<>>
    /\ mirrors = <<>>
    /\ inst_ret = [op |-> "none", err |-> ""]
    /\ inst_ops = ops

\* somebody rewrites daemon_instance.json
EditConfig(instance_type, uuid_ok) ==
    /\ inst_ops > 0
    /\ inst_ops' = inst_ops - 1
    /\ disk' = [instance_type |-> instance_type, uuid_ok |-> uuid_ok,
                changed |-> TRUE]
    /\ UNCHANGED <<strategy, state, procs, collecting, status_tx, mirrors,
                   inst_ret>>
    /\ UNCHANGED nonInstVars

\* dropping an InstanceProcess drops the sender it still holds
DropHandle(ps, handles) ==
    [p \in Procs |->
        IF p \in handles /\ ps[p].term_signal = "some"
        THEN [ps[p] EXCEPT !.term_signal = "dropped"]
        ELSE ps[p]]

\* a start that takes every state for one without a process
NoProcessBound(st) == FALSE

\* Instance::start: state.process.is_some()
ProcessBound(st) == st.process # <<>>

\* Instance::start up to the release of the write lock, InstanceProcess::start
\* included
InstanceStart(spawn_ok) ==
    LET reload == state.status \in {"stopped", "crashed"} /\ disk.changed
        config == IF reload THEN disk.instance_type ELSE state.config
        free == {p \in Procs : procs[p].child = "none"}
        p == CHOOSE p \in free : \A q \in free : p <= q
    IN  /\ inst_ops > 0
        /\ inst_ops' = inst_ops - 1
        /\ spawn_ok => free # {}
        /\ IF ProcessBound(state)
           THEN /\ inst_ret' = [op |-> "start", err |-> "Process already running"]
                /\ UNCHANGED <<state, disk, procs, collecting, status_tx,
                               mirrors>>
           ELSE IF reload /\ ~disk.uuid_ok
           THEN /\ inst_ret' = [op |-> "start", err |-> "UUID changed"]
                /\ UNCHANGED <<state, disk, procs, collecting, status_tx,
                               mirrors>>
           ELSE /\ state' = [state EXCEPT !.config = config]
                /\ disk' = [disk EXCEPT !.changed = IF reload THEN FALSE ELSE @]
                /\ mirrors' = Append(mirrors, Len(status_tx) + 1)
                /\ IF spawn_ok
                   THEN /\ procs' = [procs EXCEPT ![p] =
                                [NoProcess EXCEPT !.child = "alive",
                                                  !.task = "loop",
                                                  !.is_mc_server = config = "mc",
                                                  !.term_signal = "some"]]
                        /\ status_tx' = Append(status_tx, OnProcessStart(strategy))
                        /\ collecting' = collecting \cup {p}
                        /\ UNCHANGED inst_ret
                   ELSE /\ inst_ret' = [op |-> "start",
                                        err |-> "Failed to start process"]
                        /\ UNCHANGED <<procs, status_tx, collecting>>
        /\ UNCHANGED strategy
        /\ UNCHANGED nonInstVars

\* a start that stores the handle whatever process.exited() says
StartFinishStores(p) ==
    /\ p \in collecting
    /\ collecting' = collecting \ {p}
    /\ state' = [state EXCEPT !.process = <<p>>]
    /\ procs' = DropHandle(procs, {state.process[i] : i \in DOMAIN state.process})
    /\ inst_ret' = [op |-> "start", err |-> ""]
    /\ UNCHANGED <<strategy, disk, status_tx, mirrors, inst_ops>>
    /\ UNCHANGED nonInstVars

\* Instance::start after the 500 ms of log collection
StartFinish(p) ==
    /\ p \in collecting
    /\ collecting' = collecting \ {p}
    /\ IF ~procs[p].exited
       THEN /\ state' = [state EXCEPT !.process = <<p>>]
            /\ procs' = DropHandle(procs, {state.process[i] : i \in DOMAIN state.process})
            /\ inst_ret' = [op |-> "start", err |-> ""]
       ELSE /\ procs' = DropHandle(procs, {p})
            /\ inst_ret' = [op |-> "start", err |-> "Process exited"]
            /\ UNCHANGED state
    /\ UNCHANGED <<strategy, disk, status_tx, mirrors, inst_ops>>
    /\ UNCHANGED nonInstVars

\* a status updater spawned by start receives one status. The updaters are
\* kept in the order of their progress (of several that wait for the same
\* message the last one listed moves), and the channel forgets a message
\* that every receiver has seen. state.at is the place in the channel of
\* the message the stored status was taken from, 0 once it is forgotten
Mirror(m) ==
    LET moved == [mirrors EXCEPT ![m] = @ + 1]
        seen == moved[1] - 1
    IN  /\ m \in DOMAIN mirrors
        /\ mirrors[m] <= Len(status_tx)
        /\ IF m = Len(mirrors) THEN TRUE ELSE mirrors[m + 1] > mirrors[m]
        /\ state' = [state EXCEPT !.status = status_tx[mirrors[m]],
                                  !.at = IF mirrors[m] > seen
                                         THEN mirrors[m] - seen ELSE 0]
        /\ mirrors' = [i \in DOMAIN moved |-> moved[i] - seen]
        /\ status_tx' = SubSeq(status_tx, seen + 1, Len(status_tx))
        /\ UNCHANGED <<strategy, disk, procs, collecting, inst_ret, inst_ops>>
        /\ UNCHANGED nonInstVars

\* the child ends on its own
ChildExit(p) ==
    /\ procs[p].child = "alive"
    /\ procs' = [procs EXCEPT ![p].child = "exited"]
    /\ UNCHANGED <<strategy, state, disk, collecting, status_tx, mirrors,
                   inst_ret, inst_ops>>
    /\ UNCHANGED nonInstVars

\* I/O loop: what the task of p sends on the status channel for a line
LineSends(p, line) ==
    IF procs[p].is_mc_server THEN OnLineReceived(strategy, line) ELSE <<>>

\* I/O loop: a line of stdout or stderr
TaskLine(p, line) ==
    /\ procs[p].task = "loop"
    /\ Len(status_tx) < MaxPub
    /\ status_tx' = status_tx \o LineSends(p, line)
    /\ UNCHANGED <<strategy, state, disk, procs, collecting, mirrors,
                   inst_ret, inst_ops>>
    /\ UNCHANGED nonInstVars

\* I/O loop: a message of the input channel is written to stdin
TaskInput(p) ==
    /\ procs[p].task = "loop"
    /\ procs[p].input_rx > 0
    /\ procs' = [procs EXCEPT ![p].input_rx = @ - 1,
                              ![p].stdin = IF procs[p].child = "alive"
                                           THEN @ + 1 ELSE @]
    /\ UNCHANGED <<strategy, state, disk, collecting, status_tx, mirrors,
                   inst_ret, inst_ops>>
    /\ UNCHANGED nonInstVars

\* I/O loop: process.wait() returns
TaskWait(p) ==
    /\ procs[p].task = "loop"
    /\ procs[p].child = "exited"
    /\ status_tx' = Append(status_tx, "stopped")
    /\ procs' = [procs EXCEPT ![p].exited = TRUE, ![p].task = "done"]
    /\ UNCHANGED <<strategy, state, disk, collecting, mirrors, inst_ret,
                   inst_ops>>
    /\ UNCHANGED nonInstVars

\* I/O loop: the termination one-shot resolves, with the force flag or with
\* the error of a dropped sender; the task ends and drops the child, which
\* was spawned with kill_on_drop
TaskTerm(p) ==
    /\ procs[p].task = "loop"
    /\ IF procs[p].term_rx # <<>>
       THEN /\ status_tx' = Append(status_tx, "stopped")
            /\ procs' = [procs EXCEPT
                    ![p].signal = Append(@, IF procs[p].term_rx[1] THEN "kill"
                                            ELSE "term"),
                    ![p].child = "exited",
                    ![p].exited = TRUE,
                    ![p].task = "done"]
       ELSE /\ procs[p].term_signal = "dropped"
            /\ procs' = [procs EXCEPT ![p].child = "exited", ![p].task = "done"]
            /\ UNCHANGED status_tx
    /\ UNCHANGED <<strategy, state, disk, collecting, mirrors, inst_ret,
                   inst_ops>>
    /\ UNCHANGED nonInstVars

\* oneshot::Sender::send on the handle of p: the value arrives unless the
\* receiver is gone with its task
SendTerm(ps, p, force) ==
    [ps EXCEPT ![p].term_signal = "none",
               ![p].term_rx = IF ps[p].task = "loop" THEN Append(@, force)
                              ELSE @]

\* a term that leaves the sender in the handle and sends on every call
TermKeepsSender(ps, p) ==
    [procs |-> [ps EXCEPT ![p].term_rx = Append(@, FALSE)], err |-> ""]

\* InstanceProcess::term
Term(ps, p) ==
    IF ps[p].term_signal = "some"
    THEN [procs |-> SendTerm(ps, p, FALSE),
          err |-> IF ps[p].task = "loop" THEN ""
                  ELSE "Could not send termination signal"]
    ELSE [procs |-> ps, err |-> "Termination signal sent to stop process"]

\* InstanceProcess::kill
Kill(ps, p) ==
    IF ps[p].term_signal = "some" THEN SendTerm(ps, p, TRUE) ELSE ps

\* Instance::stop through the strategy
InstanceStop ==
    /\ inst_ops > 0
    /\ inst_ops' = inst_ops - 1
    /\ IF strategy = "minecraft"
       THEN /\ procs' = [p \in Procs |->
                    IF procs[p].task = "loop"
                    THEN [procs[p] EXCEPT !.input_rx = @ + 1]
                    ELSE procs[p]]
            /\ inst_ret' = [op |-> "stop", err |-> ""]
       ELSE IF state.process = <<>>
       THEN /\ inst_ret' = [op |-> "stop", err |-> "Instance is not running"]
            /\ UNCHANGED procs
       ELSE /\ procs' = Term(procs, state.process[1]).procs
            /\ inst_ret' = [op |-> "stop",
                            err |-> Term(procs, state.process[1]).err]
    /\ UNCHANGED <<strategy, state, disk, collecting, status_tx, mirrors>>
    /\ UNCHANGED nonInstVars

\* Instance::kill
InstanceKill ==
    /\ inst_ops > 0
    /\ inst_ops' = inst_ops - 1
    /\ state' = [state EXCEPT !.process = <<>>]
    /\ procs' = IF state.process = <<>> THEN procs
                ELSE Kill(procs, state.process[1])
    /\ inst_ret' = [op |-> "kill", err |-> ""]
    /\ UNCHANGED <<strategy, disk, collecting, status_tx, mirrors>>
    /\ UNCHANGED nonInstVars

\* one instance, its callers, its children and whoever edits its config
InstNext ==
    \/ \E instance_type \in {"mc", "none"}, uuid_ok \in BOOLEAN :
        EditConfig(instance_type, uuid_ok)
    \/ \E spawn_ok \in BOOLEAN : InstanceStart(spawn_ok)
    \/ \E p \in Procs :
        \/ StartFinish(p)
        \/ ChildExit(p)
        \/ \E line \in Lines : TaskLine(p, line)
        \/ TaskInput(p)
        \/ TaskWait(p)
        \/ TaskTerm(p)
    \/ \E m \in 1..MaxInstOps : Mirror(m)
    \/ InstanceStop
    \/ InstanceKill

\* ------------------------------------------------------------------------
\* Binary frames of protocol v1 (protocols/v1/protocol.rs)
\* ------------------------------------------------------------------------

\* the frames given to the parser: the magic number 0x00002CBB in big-endian
\* order, two wrong ones (0x00002CBA and 0x2CBB0000) and cut headers, each
\* followed by bytes of which 128 is a varint byte with the continuation
\* bit and 1 alone is a body that parses as a request
Frames ==
    {h \o t : h \in {<<0, 0, 44, 187>>, <<0, 0, 44, 186>>, <<44, 187, 0, 0>>,
                      <<0, 0, 44>>, <<>>},
              t \in UNION {[1..n -> {0, 1, 2, 128}] : n \in 0..MaxTail}}

\* AsyncReadExt::read_u32 on the cursor: big-endian, an error at the end of
\* the input; the value is kept as its high and low 16-bit halves
ReadU32(raw) ==
    IF Len(raw) < 4 THEN ResErr("eof")
    ELSE ResOk(<<raw[1] * 256 + raw[2], raw[3] * 256 + raw[4]>>)

\* the magic number of protocol v1, 0x00002CBB
Magic == <<0, 11451>>

\* VarintReader::read_usize_varint on the cursor at pos (bytes before it are
\* read): seven bits a byte, the low ones first, until a byte without the
\* continuation bit; an error at the end of the input. The value and the
\* position after it
RECURSIVE ReadVarint(_, _, _, _)
ReadVarint(raw, pos, shift, acc) ==
    IF pos >= Len(raw) THEN ResErr("eof")
    ELSE LET byte == raw[pos + 1]
             val == acc + (byte % 128) * shift
         IN  IF byte >= 128 THEN ReadVarint(raw, pos + 1, shift * 128, val)
             ELSE ResOk([val |-> val, pos |-> pos + 1])

\* a response, the request handed to handle_request, or the panic of an
\* index out of range
BinResp(kind, retcode, id) == [kind |-> kind, retcode |-> retcode, id |-> id]

\* ProtocolV1::process_bin_request, as handle_bin_request uses it
ProcessBinRequest(raw) ==
    LET magic_number == ReadU32(raw)
        body_length == ReadVarint(raw, 4, 1, 0)
        attachment_length == ReadVarint(raw, body_length.val.pos, 1, 0)
        start_pos == attachment_length.val.pos
        body_end == start_pos + body_length.val.val
    IN  IF magic_number.kind = "err" THEN BinResp("response", BAD_REQUEST, NilId)
        ELSE IF magic_number.val # Magic THEN BinResp("response", BAD_REQUEST, NilId)
        ELSE IF body_length.kind = "err" THEN BinResp("response", BAD_REQUEST, NilId)
        ELSE IF attachment_length.kind = "err"
        THEN BinResp("response", BAD_REQUEST, NilId)
        ELSE IF body_end + attachment_length.val.val > Len(raw)
        THEN BinResp("panic", 0, NilId)
        ELSE IF SubSeq(raw, start_pos + 1, body_end) # <<1>>
        THEN BinResp("response", BAD_REQUEST, NilId)
        ELSE BinResp("request", OK, 1)

BinIdle ==
    /\ bin_raw = <<>>
    /\ bin_resp = BinResp("none", 0, NilId)

\* ProtocolV1::process_binary on one frame, up to handle_request
HandleBinRequest(raw) ==
    /\ bin_raw' = raw
    /\ bin_resp' = ProcessBinRequest(raw)
    /\ UNCHANGED nonBinVars

BinNext == \E raw \in Frames : HandleBinRequest(raw)

\* ------------------------------------------------------------------------
\* Text-mode transfer: download_range's encoder and upload_chunk's decoder
\* (storage/files.rs)
\* ------------------------------------------------------------------------

\* the bytes of the files: 0, 1 and the high bytes of a leading (0xD8) and
\* of a trailing (0xDC) surrogate
FileBytes == {0, 1, 216, 220}

FileContents == UNION {[1..n -> FileBytes] : n \in 0..MaxFile}

\* AsyncReadExt::read_buf into a Vec<u8>: the bytes read are appended to
\* the vector, whose spare capacity (64 bytes or more after the reserve)
\* holds the rest of the file
ReadBuf(buf, file, from) == buf \o SubSeq(file, from + 1, Len(file))

RECURSIVE FromUtf16(_)
\* String::from_utf16: the scalar values of the code units v, ending in -1
\* where a surrogate is not paired (Err)
FromUtf16(v) ==
    IF v = <<>> THEN <<>>
    ELSE IF v[1] \div 1024 = 54
    THEN IF Len(v) >= 2 /\ v[2] \div 1024 = 55
         THEN <<65536 + (v[1] - 55296) * 1024 + (v[2] - 56320)>>
                  \o FromUtf16(SubSeq(v, 3, Len(v)))
         ELSE <<-1>>
    ELSE IF v[1] \div 1024 = 55 THEN <<-1>>
    ELSE <<v[1]>> \o FromUtf16(Tail(v))

RECURSIVE EncodeUtf16(_)
\* str::encode_utf16: the code units of the scalar values
EncodeUtf16(string) ==
    IF string = <<>> THEN <<>>
    ELSE (IF Head(string) < 65536 THEN <<Head(string)>>
          ELSE <<55296 + (Head(string) - 65536) \div 1024,
                 56320 + ((Head(string) - 65536) % 1024)>>)
         \o EncodeUtf16(Tail(string))

\* Files::bytes_to_string_data: a 0 is pushed on an odd length, chunks(2)
\* are joined as c[0] | c[1] << 8, from_utf16(..).unwrap()
BytesToStringData(bytes) ==
    LET padded == IF Len(bytes) % 2 # 0 THEN Append(bytes, 0) ELSE bytes
        units == [i \in 1..(Len(padded) \div 2) |->
                     padded[2 * i - 1] + padded[2 * i] * 256]
        string == FromUtf16(units)
    IN  IF \E i \in DOMAIN string : string[i] = -1
        THEN ResPanic ELSE ResOk(string)

\* Files::download_range on an open session over file
DownloadRange(file, from, to) ==
    IF ~(to <= Len(file) /\ from < to)
    THEN ResErr("invalid download file id or invalid range")
    ELSE BytesToStringData(ReadBuf([i \in 1..(to - from) |-> 0], file, from))

\* upload_chunk: the bytes written for the string data
UploadWrites(chunk_size, string) ==
    LET data == ToBeBytes(EncodeUtf16(string))
    IN  SubSeq(data, 1, WrittenLen(chunk_size, data))

CodecIdle ==
    codec = [file |-> <<>>, from |-> 0, to |-> 0, ret |-> NoRes, written |-> <<>>]

\* a client downloads file[from..to] as text and uploads the string it got
\* as one chunk of a session with that chunk size
TextTransfer(file, from, to) ==
    /\ LET ret == DownloadRange(file, from, to)
       IN  codec' = [file |-> file, from |-> from, to |-> to, ret |-> ret,
                     written |-> IF ret.kind = "ok"
                                 THEN UploadWrites(to - from, ret.val)
                                 ELSE <<>>]
    /\ UNCHANGED nonCodecVars

CodecNext ==
    \E file \in FileContents : \E from, to \in 0..MaxFile :
        TextTransfer(file, from, to)

\* ------------------------------------------------------------------------
\* Events and their listeners (utils/event.rs)
\* ------------------------------------------------------------------------

\* the kinds of TListener; n is the counter of TListener::count(n)
TListeners == {"simple", "count", "once"}

\* ListenerWrapper::new: what an entry of the Vec and its clones in the
\* snapshots hold by value; the cells behind the Arcs are in registered
ListenerWrapperNew(id, t, sync) == [id |-> id, sync |-> sync, t |-> t]

\* the threads that call invoke on the event at the same time
Invokers == 1..MaxInvokers

IdleInvoker == [pc |-> "idle", snapshot |-> <<>>, should_remove |-> FALSE]

\* a counted listener that is never spent by the decrement from 1
CountSpentNever(old) == FALSE

\* consume_wrapper, TListener::Count: old == 1
CountSpent(old) == old = 1

\* consume_wrapper: the wrapper after it and what it returns; fetch_sub on
\* a counter at 0 wraps to usize::MAX, written -1
ConsumeWrapper(w) ==
    IF w.is_removed THEN [w |-> w, should_remove |-> FALSE]
    ELSE LET old == w.counter
             after == IF w.t = "count"
                      THEN [w EXCEPT !.counter = IF old = 0 THEN -1 ELSE old - 1]
                      ELSE IF w.t = "once" THEN [w EXCEPT !.consumed = TRUE]
                      ELSE w
             should_remove == IF w.t = "count" THEN CountSpent(old)
                              ELSE IF w.t = "once" THEN ~w.consumed
                              ELSE FALSE
         IN  [w |-> [after EXCEPT !.is_removed = should_remove],
              should_remove |-> should_remove]

\* Event::new
EventNew(invokes) ==
    /\ listeners = <<>>
    /\ registered = <<>>
    /\ invokes_left = invokes
    /\ inv = [v \in Invokers |-> IdleInvoker]

\* add_sync_listener and add_async_listener with a TListener made for the
\* call: None for a count of 0, else the wrapper is pushed under the next id
AddListener(t, n, sync) ==
    /\ Len(registered) < MaxListeners
    /\ IF t = "count" /\ n = 0
       THEN UNCHANGED <<listeners, registered>>
       ELSE LET id == Len(registered) + 1
            IN  /\ listeners' = Append(listeners, ListenerWrapperNew(id, t, sync))
                /\ registered' = Append(registered,
                        [t |-> t, n |-> n, sync |-> sync,
                         counter |-> IF t = "count" THEN n ELSE 0,
                         consumed |-> FALSE, is_removed |-> FALSE,
                         invoked |-> 0, called |-> 0, unregistered |-> FALSE])
    /\ UNCHANGED <<invokes_left, inv>>
    /\ UNCHANGED nonEventVars

\* _remove_listener: the wrapper with the id is taken out of the Vec
RemoveFrom(ls, id) == SelectSeq(ls, LAMBDA w : w.id # id)

\* remove_listener called by the owner of the event
RemoveListener(id) ==
    /\ id \in DOMAIN registered
    /\ \E i \in DOMAIN listeners : listeners[i].id = id
    /\ listeners' = RemoveFrom(listeners, id)
    /\ registered' = [registered EXCEPT ![id].unregistered = TRUE,
                                        ![id].is_removed = TRUE]
    /\ UNCHANGED <<invokes_left, inv>>
    /\ UNCHANGED nonEventVars

RECURSIVE InvokeFrom(_, _)
\* the loop of invoke and invoke_async over the rest of the snapshot: a
\* wrapper marked removed is skipped, else it is consumed, its callback is
\* called (a sync one runs, the future of an async one is spawned) and it
\* is removed when spent
InvokeFrom(snapshot, ev) ==
    IF snapshot = <<>> THEN ev
    ELSE LET id == Head(snapshot).id
             wrapper == ev.registered[id]
             consumed == ConsumeWrapper(wrapper)
         IN  IF wrapper.is_removed
             THEN InvokeFrom(Tail(snapshot), ev)
             ELSE InvokeFrom(Tail(snapshot),
                      [listeners |-> IF consumed.should_remove
                                     THEN RemoveFrom(ev.listeners, id)
                                     ELSE ev.listeners,
                       registered |-> [ev.registered EXCEPT
                           ![id].counter = consumed.w.counter,
                           ![id].consumed = consumed.w.consumed,
                           ![id].is_removed = consumed.w.is_removed,
                           ![id].called = @ + 1]])

\* invoke (is_async false) and invoke_async (true) with no other invoke
\* under way, from the snapshot of the listeners to the end of the loop,
\* join_all included
Invoke(is_async) ==
    /\ \A v \in Invokers : inv[v].pc = "idle"
    /\ UNCHANGED inv
    /\ invokes_left > 0
    /\ invokes_left' = invokes_left - 1
    /\ LET ev == InvokeFrom(listeners,
                     [listeners |-> listeners,
                      registered |-> <<>> \o [id \in DOMAIN registered |->
                          [registered[id] EXCEPT !.invoked = @ + 1]]])
       IN  /\ listeners' = ev.listeners
           /\ registered' = ev.registered
    /\ UNCHANGED nonEventVars

\* the wrapper at the head of the snapshot of thread v is done with
NextWrapper(v) ==
    [inv EXCEPT ![v] = [pc |-> "loop", snapshot |-> Tail(inv[v].snapshot),
                        should_remove |-> FALSE]]

\* invoke on thread v: the listeners are cloned under the lock
InvokeBegin(v) ==
    /\ inv[v].pc = "idle"
    /\ invokes_left > 0
    /\ invokes_left' = invokes_left - 1
    /\ inv' = [inv EXCEPT ![v] = [IdleInvoker EXCEPT !.pc = "loop",
                                                     !.snapshot = listeners]]
    /\ registered' = [id \in DOMAIN registered |->
                          [registered[id] EXCEPT !.invoked = @ + 1]]
    /\ UNCHANGED listeners
    /\ UNCHANGED nonEventVars

\* invoke: the loop has come to its end, or is_removed of the next wrapper
\* is loaded and a removed one is skipped
InvokeLoad(v) ==
    /\ inv[v].pc = "loop"
    /\ inv' = IF inv[v].snapshot = <<>> THEN [inv EXCEPT ![v] = IdleInvoker]
              ELSE IF registered[Head(inv[v].snapshot).id].is_removed
              THEN NextWrapper(v)
              ELSE [inv EXCEPT ![v].pc = "consume"]
    /\ UNCHANGED <<listeners, registered, invokes_left>>
    /\ UNCHANGED nonEventVars

\* consume_wrapper: the load of is_removed; false is returned for a wrapper
\* that is marked
ConsumeEnter(v) ==
    /\ inv[v].pc = "consume"
    /\ inv' = [inv EXCEPT ![v].pc =
                  IF registered[Head(inv[v].snapshot).id].is_removed
                  THEN "call" ELSE "rmw"]
    /\ UNCHANGED <<listeners, registered, invokes_left>>
    /\ UNCHANGED nonEventVars

\* consume_wrapper: counter.fetch_sub(1) or consumed.swap(true), one atomic
\* step; is_removed is not read again
ConsumeRmw(v) ==
    /\ inv[v].pc = "rmw"
    /\ LET id == Head(inv[v].snapshot).id
           consumed == ConsumeWrapper([registered[id] EXCEPT !.is_removed = FALSE])
       IN  /\ registered' = [registered EXCEPT
                                 ![id].counter = consumed.w.counter,
                                 ![id].consumed = consumed.w.consumed]
           /\ inv' = [inv EXCEPT ![v].should_remove = consumed.should_remove,
                                 ![v].pc = IF consumed.should_remove
                                           THEN "mark" ELSE "call"]
    /\ UNCHANGED <<listeners, invokes_left>>
    /\ UNCHANGED nonEventVars

\* consume_wrapper: is_removed.store(true)
ConsumeMark(v) ==
    /\ inv[v].pc = "mark"
    /\ registered' = [registered EXCEPT ![Head(inv[v].snapshot).id].is_removed = TRUE]
    /\ inv' = [inv EXCEPT ![v].pc = "call"]
    /\ UNCHANGED <<listeners, invokes_left>>
    /\ UNCHANGED nonEventVars

\* invoke: the callback of the wrapper is called, whatever consume_wrapper
\* returned
InvokeCall(v) ==
    /\ inv[v].pc = "call"
    /\ registered' = [registered EXCEPT ![Head(inv[v].snapshot).id].called = @ + 1]
    /\ inv' = IF inv[v].should_remove THEN [inv EXCEPT ![v].pc = "remove"]
              ELSE NextWrapper(v)
    /\ UNCHANGED <<listeners, invokes_left>>
    /\ UNCHANGED nonEventVars

\* invoke: _remove_listener for a wrapper that is spent
InvokeRemove(v) ==
    /\ inv[v].pc = "remove"
    /\ LET id == Head(inv[v].snapshot).id
       IN  /\ listeners' = RemoveFrom(listeners, id)
           /\ registered' = [registered EXCEPT ![id].is_removed = TRUE]
    /\ inv' = NextWrapper(v)
    /\ UNCHANGED invokes_left
    /\ UNCHANGED nonEventVars

\* listeners are added and several threads invoke the event at once
EventConcNext ==
    \/ \E t \in TListeners : \E n \in 0..MaxCount : \E sync \in BOOLEAN :
           AddListener(t, n, sync)
    \/ \E v \in Invokers :
           \/ InvokeBegin(v)
           \/ InvokeLoad(v)
           \/ ConsumeEnter(v)
           \/ ConsumeRmw(v)
           \/ ConsumeMark(v)
           \/ InvokeCall(v)
           \/ InvokeRemove(v)

EventNext ==
    \/ \E t \in TListeners : \E n \in 0..MaxCount : \E sync \in BOOLEAN :
           AddListener(t, n, sync)
    \/ \E id \in 1..MaxListeners : RemoveListener(id)
    \/ \E is_async \in BOOLEAN : Invoke(is_async)

\* ------------------------------------------------------------------------
\* Specifications
\* ------------------------------------------------------------------------

Init ==
    /\ PoolInit
    /\ RmIdle
    /\ FilesInit
    /\ ConnInit
    /\ DrvStart({"daemon"})
    /\ InstanceNew({"universal"}, 0)
    /\ BinIdle
    /\ CodecIdle
    /\ EventNew(0)

\* a connection's task pool, its connection loop and the dispatcher
Spec == Init /\ [][PoolNext]_vars

\* a scheduler that runs every task that can run: a started submission is
\* carried through, a worker takes its next step, the timer of a parked
\* worker fires. That frames keep arriving is not forced, nor the way the
\* processor ends
PoolFair ==
    /\ WF_vars(LoadTotal)
    /\ WF_vars(EnsureWorkers)
    /\ WF_vars(TrySendHandoff \/ TrySendBuffer \/ TrySendFull)
    /\ WF_vars(WriteOutgoing)
    /\ WF_vars(WorkerRecv)
    /\ WF_vars(\E r \in BagToSet(wk) : WorkerActivate(r))
    /\ WF_vars(\E r \in BagToSet(wk) :
                  \/ \E res \in Outcomes : WorkerProcess(r, res)
                  \/ WorkerPanic(r))
    /\ WF_vars(WorkerDeactivate)
    /\ WF_vars(WorkerTimeout)
    /\ WF_vars(WorkerExit)

\* the pool under that scheduler
SpecFair == Spec /\ PoolFair

\* the pool with its two ends, under the same scheduler
SpecPoolEnd == Init /\ [][PoolEndNext]_vars /\ PoolFair

InitRemain ==
    /\ RmInit
    /\ PoolInit
    /\ FilesInit
    /\ ConnInit
    /\ DrvStart({"daemon"})
    /\ InstanceNew({"universal"}, 0)
    /\ BinIdle
    /\ CodecIdle
    /\ EventNew(0)

\* one remainder tracker under any sequence of reduce calls
SpecRemain == InitRemain /\ [][RmNext]_vars

\* one client uploading with chunks of every shape
SpecUpload == Init /\ [][UploadNext]_vars

\* two clients uploading at once
SpecFiles == Init /\ [][FilesNext]_vars

\* two clients downloading at once
SpecDownload == Init /\ [][DownloadNext]_vars

InitConn ==
    /\ PoolInit
    /\ RmIdle
    /\ FilesStart(MaxConnOps)
    /\ ConnInit
    /\ DrvStart({"daemon"})
    /\ InstanceNew({"universal"}, 0)
    /\ BinIdle
    /\ CodecIdle
    /\ EventNew(0)

\* two connections from upgrade to the end of serve_connection
SpecConn == InitConn /\ [][ConnNext]_vars

\* two connections that the runtime keeps polling: a ready arm of the
\* select is taken, the body of an arm runs to its end, the end of the
\* stream is read, serve_connection goes on after the loop. What the peer,
\* the clients and the operator do is not forced
SpecConnFair ==
    /\ SpecConn
    /\ \A c \in Conns :
        /\ WF_vars(\E ctx_ok \in BOOLEAN : ServeInsert(c, ctx_ok))
        /\ WF_vars(~peer_open[c] /\ LoopRead(c))
        /\ WF_vars(\E full \in BOOLEAN : LoopSubmit(c, full))
        /\ WF_vars(LoopWrite(c))
        /\ WF_vars(LoopWriteDone(c))
        /\ WF_vars(LoopCancel(c))
        /\ WF_vars(LoopCancelSend(c))
        /\ WF_vars(ServeRemove(c))

\* two clients asking for the upgrade
SpecUpgrade == Init /\ [][UpgradeNext]_vars

InitInst ==
    /\ PoolInit
    /\ RmIdle
    /\ FilesInit
    /\ ConnInit
    /\ DrvStart({"daemon"})
    /\ InstanceNew({"universal", "minecraft"}, MaxInstOps)
    /\ BinIdle
    /\ CodecIdle
    /\ EventNew(0)

\* one client whose calls the runtime keeps running: every step of a call
\* is taken, the reads of get_sha1 included. That a read of the open file
\* fails is not forced
SpecHash ==
    /\ Init
    /\ [][HashNext]_vars
    /\ WF_vars(UploadRequestOpen(1))
    /\ WF_vars(UploadRequestInsert(1))
    /\ WF_vars(UploadChunkOffset(1))
    /\ WF_vars(UploadChunkWrite(1))
    /\ WF_vars(UploadChunkRemove(1))
    /\ WF_vars(UploadChunkRename(1))
    /\ WF_vars(Sha1Read(1))
    /\ WF_vars(/\ calls[1].pc = "sha1"
               /\ calls[1].hashed = <<>>
               /\ fs[Final(calls[1].sess.path)] = 0
               /\ (UploadChunkSha1(1) \/ DownloadRequestSha1(1)))
    /\ WF_vars(DownloadRequestScan(1))
    /\ WF_vars(DownloadRequestOpen(1))
    /\ WF_vars(DownloadRequestInsert(1))

InitEvent ==
    /\ PoolInit
    /\ RmIdle
    /\ FilesInit
    /\ ConnInit
    /\ DrvStart({"daemon"})
    /\ InstanceNew({"universal"}, 0)
    /\ BinIdle
    /\ CodecIdle
    /\ EventNew(MaxInvokes)

\* one event: listeners of every kind are added and removed between invokes
SpecEvent == InitEvent /\ [][EventNext]_vars

\* one event invoked from several threads at once
SpecEventConc == InitEvent /\ [][EventConcNext]_vars

\* files of every content downloaded as text and uploaded again
SpecCodec == Init /\ [][CodecNext]_vars

\* binary frames of every shape given to the parser
SpecBin == Init /\ [][BinNext]_vars

\* one instance of either strategy under any calls
SpecInst == InitInst /\ [][InstNext]_vars

\* the same under a runtime that keeps polling the tasks: the sleep of
\* start ends, an updater receives what was sent, and an arm of the I/O
\* loop that stays ready is taken. Callers, children and their output are
\* not forced
SpecInstFair ==
    /\ SpecInst
    /\ \A p \in Procs :
        /\ WF_vars(StartFinish(p))
        /\ WF_vars(TaskInput(p))
        /\ WF_vars(TaskWait(p))
        /\ WF_vars(TaskTerm(p))
    /\ \A m \in 1..MaxInstOps : WF_vars(Mirror(m))

InitDriver ==
    /\ PoolInit
    /\ RmIdle
    /\ FilesInit
    /\ ConnInit
    /\ DrvStart({"daemon", "remote"})
    /\ InstanceNew({"universal"}, 0)
    /\ BinIdle
    /\ CodecIdle
    /\ EventNew(0)

\* a driver from bind to the return of run, under either watcher; the
\* runtime takes the steps of run whenever they are possible, and an arm of
\* the select that is ready again and again is taken in the end
SpecDriver ==
    /\ InitDriver
    /\ [][DrvNext]_vars
    /\ WF_vars(DrvWake)
    /\ SF_vars(DrvStop)
    /\ WF_vars(DrvJoinHttp)
    /\ WF_vars(DrvJoinWs)

\* ------------------------------------------------------------------------
\* Claims about the task pool and the dispatcher, checked under Spec
\* ------------------------------------------------------------------------

\* tasks the processor is running
RunningTasks == Cardinality(WorkersAt("run"))

\* C1: in every reachable state the number of tasks being run by the
\* processor is at most max_workers, and
\* active_workers <= total_workers <= max_workers
C1_WorkersBounded ==
    /\ RunningTasks <= MaxWorkers
    /\ active_workers <= total_workers
    /\ total_workers <= MaxWorkers

\* C1 witness: max_workers tasks are running, the buffer is full and a
\* further frame is about to be sent
C1_Witness ==
    /\ RunningTasks = MaxWorkers
    /\ active_workers = MaxWorkers
    /\ Len(task_chan) = MaxPending
    /\ sub.pc = "yield"

\* C2 as stated: when max_pending + 1 frames were submitted and none of
\* them has completed, the last one was refused with Full, so the first
\* max_pending + 1 frames are never all in flight together
C2_FullAtMaxPendingPlusOne ==
    ~(\A i \in 1..(MaxPending + 1) : i \in InFlight)

\* C2 amended: a try_send made while max_workers + max_pending accepted
\* frames have not completed returns Full (nothing is taken over by the
\* pool), and a frame that parses is answered on the sink with a
\* RATE_LIMIT_EXCEEDED response carrying the frame's request id
C2_FullWhenSaturated ==
    [][(/\ sub.pc = "yield"
        /\ sub'.pc = "idle"
        /\ Cardinality(InFlight) >= MaxWorkers + MaxPending)
       => (/\ task_chan' = task_chan
           /\ wk' = wk
           /\ Len(outgoing_rx') = Len(outgoing_rx) + 1
           /\ ParseOk(sub.frame) =>
                LET r == outgoing_rx'[Len(outgoing_rx')]
                IN  /\ r.status = "error"
                    /\ r.retcode = RATE_LIMIT_EXCEEDED
                    /\ r.id = sub.frame.id)]_vars

\* C2 witness: with max_workers + max_pending frames in flight the sink
\* ends with the RATE_LIMIT_EXCEEDED answer to the frame just refused
C2_Witness ==
    /\ Cardinality(InFlight) = MaxWorkers + MaxPending
    /\ sub.pc = "idle"
    /\ outgoing_rx # <<>>
    /\ LET r == outgoing_rx[Len(outgoing_rx)]
       IN  /\ r.via = "ratelimit"
           /\ r.retcode = RATE_LIMIT_EXCEEDED
           /\ r.id = next_frame - 1
           /\ r.req = next_frame - 1

\* C3: every response handle_request produced for a parsed request carries
\* the request's id, for a handler result and for a handler error alike
C3_ResponseIdIsRequestId ==
    \A i \in 1..Len(outgoing_rx) :
        (outgoing_rx[i].via = "handler" /\ outgoing_rx[i].retcode # BAD_REQUEST)
            => outgoing_rx[i].id = outgoing_rx[i].req

\* ------------------------------------------------------------------------
\* Claims about the remainder tracker, checked under SpecRemain
\* ------------------------------------------------------------------------

\* the integers of [begin, end) the reduce calls have not covered
Uncovered == (rm_range[1]..(rm_range[2] - 1)) \ rm_reduced

\* C9: after new(0, size) and any reduce calls, get_remain() is size minus
\* the number of bytes of [0, size) the reduced ranges cover
C9_RemainIsSizeMinusCovered ==
    rm_range[1] = 0 => GetRemain(remains) = Cardinality(Uncovered)

\* the stored intervals are non-empty, pairwise disjoint and ordered by start
WellFormed(m) ==
    /\ \A b \in DOMAIN m : b < m[b]
    /\ \A b, c \in DOMAIN m : b < c => m[b] <= c

\* C10: after new(begin, end) with begin <= end and after every reduce, the
\* stored intervals are non-empty, disjoint and ordered, and done() is true
\* exactly when get_remain() is 0
C10_WellFormedAndDone ==
    /\ WellFormed(remains)
    /\ Done(remains) <=> GetRemain(remains) = 0

\* the ranges reduce is called with
RmRanges == {<<from, to>> \in (0..(MaxEnd + 1)) \X (0..(MaxEnd + 1)) : from <= to}

\* C11: reduce(a, b) followed by a second reduce(a, b) leaves the interval set
\* of a single reduce(a, b), and reduce(a, a) leaves the interval set as it is
C11_ReduceIdempotent ==
    \A r \in RmRanges :
        /\ Reduce(Reduce(remains, r[1], r[2]), r[1], r[2]) = Reduce(remains, r[1], r[2])
        /\ r[1] = r[2] => Reduce(remains, r[1], r[2]) = remains

\* ------------------------------------------------------------------------
\* Claims about uploads, checked under SpecFiles and SpecUpload
\* ------------------------------------------------------------------------

\* C4: the upload session map never holds two sessions with the same
\* target path
C4_OneUploadPerPath ==
    \A a, b \in DOMAIN upload_sessions :
        upload_sessions[a].path = upload_sessions[b].path => a = b

\* an upload_chunk call that is returning done = true
ReturnsDone(c) ==
    /\ calls[c].op = "upload_chunk"
    /\ calls[c].pc = "ret"
    /\ calls[c].res = ResOk(<<TRUE, 0>>)

\* C7: whenever upload_chunk returns done = true, the final path exists,
\* path.tmp does not, the session is out of the map, and the SHA-1 of the
\* final file equals the one supplied
C7_DonePostcondition ==
    \A c \in Callers :
        ReturnsDone(c) =>
            LET path == calls[c].sess.path
            IN  /\ fs[Final(path)] # 0
                /\ fs[Tmp(path)] = 0
                /\ calls[c].id \notin DOMAIN upload_sessions
                /\ calls[c].sess.sha1 # NoSha1 =>
                       Sha1(inodes[fs[Final(path)]]) = calls[c].sess.sha1

\* the offsets of a session the tracker counts as received
Received(s) ==
    {i \in 0..(s.size - 1) :
        ~\E k \in DOMAIN s.remain : k <= i /\ i < s.remain[k]}

\* C8: every byte the tracker counts as received has been written to the
\* file with the data of the last chunk that covers it, also when a chunk
\* is longer than chunk_size
C8_ReceivedIsWritten ==
    \A id \in DOMAIN upload_sessions :
        LET s == upload_sessions[id]
        IN  \A i \in Received(s) :
                /\ i < Len(inodes[s.ino])
                /\ inodes[s.ino][i + 1] = s.written[i + 1]

\* the ranges of the chunks sent so far cover [0, size) of session s
Covered(s) == \A i \in 1..s.size : s.written[i] # -1

\* C12: an upload_chunk call returns done = true when the union of the chunk
\* ranges sent so far covers [0, size), and returns done = false with
\* received = size - remaining while it does not
C12_DoneWhenCovered ==
    \A c \in Callers :
        (calls[c].op = "upload_chunk" /\ calls[c].pc = "ret" /\ calls[c].res.kind = "ok") =>
            IF calls[c].res.val[1]
            THEN Covered(calls[c].sess)
            ELSE /\ calls[c].id \in DOMAIN upload_sessions
                 /\ ~Covered(upload_sessions[calls[c].id])
                 /\ calls[c].res.val[2] = upload_sessions[calls[c].id].size
                        - GetRemain(upload_sessions[calls[c].id].remain)

RECURSIVE ResolveLoop(_, _)
\* the segments a path leads to when "." stays in place and ".." goes to
\* the parent; <<"..">> once the path has left the directory it started in
ResolveLoop(parts, stack) ==
    IF parts = <<>> THEN stack
    ELSE IF Head(parts) = "." THEN ResolveLoop(Tail(parts), stack)
    ELSE IF Head(parts) = ".."
    THEN IF stack = <<>> THEN <<"..">>
         ELSE ResolveLoop(Tail(parts), SubSeq(stack, 1, Len(stack) - 1))
    ELSE ResolveLoop(Tail(parts), Append(stack, Head(parts)))

\* the path, with "." and ".." resolved, lies inside the daemon root
InsideRoot(path) ==
    LET r == ResolveLoop(path, <<>>)
    IN  Len(r) >= Len(ROOT) /\ SubSeq(r, 1, Len(ROOT)) = ROOT

\* C13: upload_request rejects a supplied path at the path check exactly
\* when the path is not inside the daemon root, and a rejected request
\* opens no file and creates no session
C13_UploadPathCheck ==
    \A c \in Callers :
        calls[c].op = "upload_request" =>
            /\ calls[c].pc \in {"open", "insert"} => InsideRoot(calls[c].sess.path)
            /\ calls[c].pc = "ret" =>
                   (calls[c].res = ResErr("invalid path")
                        <=> ~InsideRoot(calls[c].sess.path))

\* C14: download_request rejects every path whose resolution of "." and
\* ".." leaves the daemon root, and no session exists for such a path
C14_DownloadEscapeRejected ==
    /\ \A c \in Callers :
           (/\ calls[c].op = "download_request"
            /\ calls[c].pc = "ret"
            /\ ~InsideRoot(calls[c].sess.path)) => calls[c].res.kind = "err"
    /\ \A id \in DOMAIN download_sessions : InsideRoot(download_sessions[id].path)

\* the call of c took a session out of upload_sessions
Remover(c) ==
    /\ calls[c].op \in {"upload_chunk", "upload_cancel"}
    /\ calls[c].pc \in {"rename", "sha1", "delete", "ret"}
    /\ calls[c].sess # NoSession

\* what a call that found its session gone reports
NotFoundReports ==
    {ResErr("file is not uploading: upload session not found"),
     ResErr("file is not uploading: done but upload session not found"),
     ResOk(<<FALSE>>)}

\* C15: of the upload_chunk and upload_cancel calls racing on one session id
\* only one takes the session out of the map and goes on to rename or delete
\* path.tmp, and every call that finds the session gone reports that it was
\* not found
C15_OneRemoverOthersNotFound ==
    /\ \A c, d \in Callers :
           (Remover(c) /\ Remover(d) /\ calls[c].id = calls[d].id) => c = d
    /\ \A c \in Callers :
           (/\ calls[c].op \in {"upload_chunk", "upload_cancel"}
            /\ calls[c].pc = "ret"
            /\ calls[c].sess = NoSession
            /\ calls[c].res.kind # "ok") =>
               calls[c].res \in NotFoundReports \cup {ResErr("offset out of range")}

\* ------------------------------------------------------------------------
\* Claims about downloads, checked under SpecDownload
\* ------------------------------------------------------------------------

\* C5: the number of download sessions open on a path never exceeds
\* file_download_sessions
C5_DownloadSessionsCapped ==
    \A path \in DownloadPaths : FileSessions(path) <= DownloadCap

\* a download_request that has returned, having run alone on a file under
\* ROOT that existed
SequentialRequest(c) ==
    /\ calls[c].op = "download_request"
    /\ calls[c].pc = "ret"
    /\ calls[c].quiet
    /\ calls[c].existed
    /\ ValidatePath(calls[c].sess.path, ROOT)

\* C6: with a cap of 1, a download_request on an existing path under ROOT
\* with no session open succeeds with id, size and sha1, and one made while
\* a session is open on the path fails
C6_FirstSucceedsSecondFails ==
    \A c \in Callers :
        SequentialRequest(c) =>
            /\ calls[c].open_at_start = 0 => calls[c].res.kind = "ok"
            /\ calls[c].open_at_start >= DownloadCap => calls[c].res.kind = "err"

\* ------------------------------------------------------------------------
\* Claims about connections, checked under SpecConn
\* ------------------------------------------------------------------------

\* C16: once serve_connection has ended, for whatever reason, the id of the
\* connection is not in the connection map
C16_EndedConnectionRemoved ==
    \A c \in Conns : conn_pc[c] \in EndPcs => conn_id[c] \notin connections

\* C17: once a connection has ended and its requests have run to their end,
\* no upload session that the connection created is left in the session map
C17_NoSessionOutlivesConnection ==
    \A c \in Conns :
        (conn_pc[c] \in EndPcs /\ calls[c].pc = "idle") =>
            conn_created[c] \cap DOMAIN upload_sessions = {}

\* C18: every connection whose loop is running when the shutdown notifier
\* fires is eventually sent the Close frame with code 1000 and reason
\* "daemon closed" and its loop ends, in whichever arm of the select the
\* loop was; a connection whose peer has gone in the meantime is excused
C18_ShutdownClosesEveryConnection ==
    \A c \in Conns :
        (c \in stop_open) ~>
            \/ DaemonClosed \in {close_sent[c][i] : i \in DOMAIN close_sent[c]}
               /\ conn_pc[c] \notin LoopPcs
            \/ ~peer_open[c]

\* ------------------------------------------------------------------------
\* Claims about the driver, checked under SpecDriver
\* ------------------------------------------------------------------------

\* C19: once the shutdown notifier has fired, run leaves its accept loop, no
\* HTTP connection task is left serving and run returns, however many HTTP
\* connections were in flight and wherever run was when the notifier fired
C19_ShutdownStopsDriver ==
    stop_fired ~>
        /\ drv_pc = "returned"
        /\ \A t \in HttpTasks : http_handlers[t] # "serving"

\* ------------------------------------------------------------------------
\* Claims about the upgrade, checked under SpecUpgrade
\* ------------------------------------------------------------------------

\* C20: an upgrade request without a token, or with a token that is neither
\* the main token nor a JWT that verifies, is answered with 401 and no
\* serve_connection, hence no connection loop, is started for it
C20_BadTokenNeverUpgraded ==
    \A c \in Conns :
        LET query == upgrade[c].query
            bad == \/ query = <<>>
                   \/ query[1] # MainToken /\ query[1] # ValidJwt
        IN  (conn_pc[c] # "none" /\ bad) =>
                /\ upgrade[c].status = UNAUTHORIZED
                /\ conn_pc[c] = "refused"

\* C21: a connection whose token is the main token is accepted, and once
\* serve_connection is past WebsocketContext::new it has a context whose
\* permissions match every required permission
C21_MainTokenMatchesAll ==
    \A c \in Conns :
        LET segments == {"instance", "start", "*", "**"}
            required == {<<a>> : a \in segments}
                            \cup {<<a, b>> : a, b \in segments}
        IN  upgrade[c].claims.kind = "default" =>
                /\ upgrade[c].status = SWITCHING_PROTOCOLS
                /\ conn_pc[c] \notin {"upgraded", "ctx", "no_upgrade"} =>
                      /\ upgrade[c].ctx # <<>>
                      /\ \A r \in required :
                            PermissionsMatches(upgrade[c].ctx[1], r)

\* ------------------------------------------------------------------------
\* C22: a start on an instance whose state already holds a process handle
\* returns the error "Process already running", spawns no child and leaves
\* the config, the status, the bound handle and the file on disk as they
\* were
\* ------------------------------------------------------------------------
C22_StartWhileBoundRejected ==
    [][(state.process # <<>> /\ \E spawn_ok \in BOOLEAN : InstanceStart(spawn_ok))
        => /\ inst_ret' = [op |-> "start", err |-> "Process already running"]
           /\ UNCHANGED <<state, disk, procs, collecting, status_tx, mirrors>>]_vars

\* a start was refused while a handle was bound
C22_Witness ==
    /\ state.process # <<>>
    /\ inst_ret = [op |-> "start", err |-> "Process already running"]

\* ------------------------------------------------------------------------
\* C23: an instance of the Minecraft strategy sends starting when a child is
\* spawned, and while the I/O task of a child reads lines it sends running
\* for a line that matches the Done pattern, stopping for one with "Stopping
\* the server" and crashed for one with "Minecraft has crashed"; running is
\* sent only once a child was spawned, so starting comes first. An instance
\* of the Universal strategy sends running at the spawn and nothing for any
\* line
\* ------------------------------------------------------------------------
C23_StatusFollowsOutput ==
    [][/\ \A p \in Procs :
            procs[p].task = "loop" =>
                IF strategy = "minecraft"
                THEN /\ LineSends(p, {"done"}) = <<"running">>
                     /\ LineSends(p, {"stopping"}) = <<"stopping">>
                     /\ LineSends(p, {"crashed"}) = <<"crashed">>
                ELSE \A line \in Lines : LineSends(p, line) = <<>>
       /\ \A p \in Procs :
            procs[p].child = "none" /\ procs'[p].child # "none" =>
                status_tx' = Append(status_tx,
                    IF strategy = "minecraft" THEN "starting" ELSE "running")
       /\ (strategy = "minecraft" /\ Len(status_tx') > Len(status_tx)
              /\ status_tx'[Len(status_tx')] = "running") =>
                \E p \in Procs : procs[p].child # "none"]_vars

\* ------------------------------------------------------------------------
\* C24: a stop on a running instance of the Minecraft strategy puts "stop\n"
\* in the input channel of the child's I/O task and the task writes it to
\* the child's stdin; a stop on a running instance of the Universal strategy
\* sends the one-shot with force = false and the task sends the non-force
\* signal, unless the child exits first; and once a child has exited, its
\* task sends stopped and sets the exit flag, and a stopped that was sent
\* becomes the stored status
\* ------------------------------------------------------------------------
C24_StopReachesChild ==
    /\ [][InstanceStop =>
            \A p \in Procs :
                procs[p].child = "alive" /\ state.process = <<p>> =>
                    IF strategy = "minecraft"
                    THEN procs'[p].input_rx = procs[p].input_rx + 1
                    ELSE procs[p].term_signal = "some" =>
                            procs'[p].term_rx = <<FALSE>>]_vars
    /\ \A p \in Procs :
        /\ (procs[p].input_rx > 0 /\ procs[p].child = "alive")
              ~> (procs[p].stdin > 0 \/ procs[p].child # "alive")
        /\ (procs[p].term_rx = <<FALSE>> /\ procs[p].child = "alive")
              ~> (procs[p].signal = <<"term">> \/ procs[p].child # "alive")
        /\ (procs[p].child = "exited" /\ ~procs[p].exited)
              ~> procs[p].exited
    /\ (\E i \in DOMAIN status_tx : status_tx[i] = "stopped")
          ~> (state.status = "stopped")

\* ------------------------------------------------------------------------
\* C25: the termination one-shot of a handle carries at most one value. The
\* first term takes the sender and sends force = false; it succeeds while
\* the I/O task still listens and fails with "Could not send termination
\* signal" once the task has ended. A later term fails and sends nothing, a
\* kill after a term sends nothing, and a kill on a handle that was never
\* terminated consumes the handle and sends force = true, which arrives
\* while the task still listens
\* ------------------------------------------------------------------------
C25_TermSentOnce ==
    /\ [](\A p \in Procs : Len(procs[p].term_rx) <= 1)
    /\ [][\A p \in Procs :
            /\ (InstanceStop /\ strategy = "universal" /\ state.process = <<p>>) =>
                 IF procs[p].term_signal = "some"
                 THEN /\ procs'[p].term_signal = "none"
                      /\ IF procs[p].task = "loop"
                         THEN /\ inst_ret'.err = ""
                              /\ procs'[p].term_rx = <<FALSE>>
                         ELSE /\ inst_ret'.err = "Could not send termination signal"
                              /\ procs'[p].term_rx = procs[p].term_rx
                 ELSE /\ inst_ret'.err = "Termination signal sent to stop process"
                      /\ procs' = procs
            /\ (InstanceKill /\ state.process = <<p>>) =>
                 /\ state'.process = <<>>
                 /\ procs'[p].term_signal = "none"
                 /\ procs'[p].term_rx =
                        IF procs[p].term_signal = "some" /\ procs[p].task = "loop"
                        THEN <<TRUE>> ELSE procs[p].term_rx]_vars

\* a second term was refused after the first one sent force = false
C25_Witness ==
    /\ inst_ret = [op |-> "stop", err |-> "Termination signal sent to stop process"]
    /\ \E p \in Procs : state.process = <<p>> /\ procs[p].term_rx = <<FALSE>>

\* C25 as stated: the first term succeeds and sends force = false, and a
\* kill on a handle that was never terminated sends force = true, whatever
\* the state of the I/O task
C25_FirstTermSucceeds ==
    /\ [](\A p \in Procs : Len(procs[p].term_rx) <= 1)
    /\ [][\A p \in Procs :
            /\ (InstanceStop /\ strategy = "universal" /\ state.process = <<p>>) =>
                 IF procs[p].term_signal = "some"
                 THEN /\ inst_ret'.err = ""
                      /\ procs'[p].term_rx = <<FALSE>>
                 ELSE /\ inst_ret'.err # ""
                      /\ procs' = procs
            /\ (InstanceKill /\ state.process = <<p>>) =>
                 /\ state'.process = <<>>
                 /\ procs'[p].term_rx =
                        IF procs[p].term_signal = "some"
                        THEN <<TRUE>> ELSE procs[p].term_rx]_vars

\* ------------------------------------------------------------------------
\* C26: a binary frame that is malformed (fewer than four bytes, a magic
\* number other than 0x00002CBB, a length varint cut short, or a declared
\* body and attachment that reach past the end of the frame) is answered
\* with BAD_REQUEST and the nil id; none ends without a response
\* ------------------------------------------------------------------------
C26_MalformedFrameAnswered ==
    LET magic_number == ReadU32(bin_raw)
        body_length == ReadVarint(bin_raw, 4, 1, 0)
        attachment_length == ReadVarint(bin_raw, body_length.val.pos, 1, 0)
        malformed ==
            IF magic_number.kind = "err" THEN TRUE
            ELSE IF magic_number.val # Magic THEN TRUE
            ELSE IF body_length.kind = "err" THEN TRUE
            ELSE IF attachment_length.kind = "err" THEN TRUE
            ELSE attachment_length.val.pos + body_length.val.val
                    + attachment_length.val.val > Len(bin_raw)
    IN  (bin_resp.kind # "none" /\ malformed) =>
            bin_resp = BinResp("response", BAD_REQUEST, NilId)

\* ------------------------------------------------------------------------
\* C28: once the completing chunk of an upload with an expected SHA-1 has
\* been renamed, the hash of the file ends and upload_chunk returns done or
\* the sha1 mismatch; the hash in download_request ends as well
\* ------------------------------------------------------------------------
C28_HashTerminates ==
    /\ (calls[1].pc = "sha1" /\ calls[1].op = "upload_chunk")
          ~> (/\ calls[1].pc = "ret"
              /\ IF calls[1].res.kind = "ok" THEN calls[1].res.val = <<TRUE, 0>>
                 ELSE calls[1].res.val = <<"sha1 mismatch">>)
    /\ (calls[1].pc = "sha1" /\ calls[1].op = "download_request")
          ~> (calls[1].pc # "sha1")

\* ------------------------------------------------------------------------
\* C27: for a file that holds an even number of bytes, download_range over
\* the whole file returns a string whose big-endian UTF-16 code units are
\* the bytes of the file, and upload_chunk given that string writes them
\* ------------------------------------------------------------------------
C27_TextRoundTrip ==
    (/\ Len(codec.file) % 2 = 0
     /\ codec.from = 0
     /\ codec.to = Len(codec.file)
     /\ codec.to > 0)
        => /\ codec.ret.kind = "ok"
           /\ ToBeBytes(EncodeUtf16(codec.ret.val)) = codec.file
           /\ codec.written = codec.file

\* ------------------------------------------------------------------------
\* C29: a worker whose receive timed out idle_timeout after it was last
\* active exits, and once frames stop arriving and the tasks taken have
\* ended total_workers comes to 0 and stays there; a worker leaves the loop
\* by the timeout only when it was parked in recv for the whole timeout
\* ------------------------------------------------------------------------
C29_IdleWorkersRetire ==
    /\ <>[](total_workers = 0)
    /\ [][total_workers' < total_workers
             => Worker("exit", NoFrame) \in BagToSet(wk)]_vars
    /\ [][Worker("exit", NoFrame) \in BagToSet(wk')
             /\ Worker("exit", NoFrame) \notin BagToSet(wk)
             => Worker("recv", NoFrame) \in BagToSet(wk)]_vars

\* ------------------------------------------------------------------------
\* C30: after k invokes since it was added, the callback of a listener
\* added with TListener::count(n) has been called min(n, k) times and that
\* of a listener added with TListener::once() min(1, k) times, sync or
\* async, unless remove_listener took it out; a spent listener is no longer
\* in the listener list
\* ------------------------------------------------------------------------
C30_CountedCalls ==
    \A id \in DOMAIN registered :
        LET r == registered[id]
            limit == IF r.t = "count" THEN r.n ELSE 1
        IN  (r.t \in {"count", "once"} /\ ~r.unregistered)
                => /\ r.called = min(limit, r.invoked)
                   /\ r.called = limit
                          => \A i \in DOMAIN listeners : listeners[i].id # id

\* a sync listener with count(2) was called twice over three invokes, an
\* async once() listener once over two or more, and both are out of the list
C30_Witness ==
    /\ listeners = <<>>
    /\ \E id \in DOMAIN registered :
           /\ registered[id].t = "count" /\ registered[id].sync
           /\ registered[id].n = 2 /\ registered[id].invoked = 3
           /\ registered[id].called = 2 /\ ~registered[id].unregistered
    /\ \E id \in DOMAIN registered :
           /\ registered[id].t = "once" /\ ~registered[id].sync
           /\ registered[id].invoked >= 2
           /\ registered[id].called = 1 /\ ~registered[id].unregistered

\* ------------------------------------------------------------------------
\* C31: total_workers is the number of worker tasks that are alive (a
\* worker is spawned in the step that reserves it), whichever way workers
\* have left the loop
\* ------------------------------------------------------------------------
C31_TotalCountsLiveWorkers == total_workers = BagCardinality(wk)

\* ------------------------------------------------------------------------
\* C32: once the output sink is closed, a worker that finishes a task
\* leaves the loop and takes no other task, and active_workers comes back
\* to 0; once the pool is dropped every worker that waits for a task exits
\* ------------------------------------------------------------------------
C32_PoolEndsStopWorkers ==
    /\ [][(~sink_open /\ \E r \in WorkersAt("run") : CopiesIn(r, wk') < CopiesIn(r, wk))
             => /\ CopiesIn(Worker("dec", NoFrame), wk')
                       <= CopiesIn(Worker("dec", NoFrame), wk)
                /\ CopiesIn(Worker("poll", NoFrame), wk')
                       <= CopiesIn(Worker("poll", NoFrame), wk)]_vars
    /\ ~sink_open ~> (active_workers = 0)
    /\ task_closed ~> (WorkersAt("poll") = {} /\ WorkersAt("recv") = {})

\* ------------------------------------------------------------------------
\* C33: when the I/O task has recorded the exit of the spawned process by
\* the end of the observation window, start returns the "Process exited"
\* error and leaves state.process as it was, and a start on an instance
\* without a handle is not rejected as already running; when no exit is
\* recorded, the handle is stored and start returns Ok
\* ------------------------------------------------------------------------
C33_ExitedStartFails ==
    /\ [][\A p \in Procs : StartFinish(p) =>
            IF procs[p].exited
            THEN /\ inst_ret' = [op |-> "start", err |-> "Process exited"]
                 /\ state'.process = state.process
            ELSE /\ inst_ret' = [op |-> "start", err |-> ""]
                 /\ state'.process = <<p>>]_vars
    /\ [][(state.process = <<>> /\ \E spawn_ok \in BOOLEAN : InstanceStart(spawn_ok))
            => \/ Len(mirrors') > Len(mirrors)
               \/ inst_ret'.err = "UUID changed"]_vars

\* a start has failed on a process that ended within its window and the
\* instance holds no handle
C33_Witness ==
    /\ inst_ret = [op |-> "start", err |-> "Process exited"]
    /\ state.process = <<>>
    /\ \E p \in Procs : procs[p].exited /\ p \notin collecting

\* C33 as stated: the outcome of start follows whether the child has exited
\* when the window ends
C33_ChildExitedStartFails ==
    [][\A p \in Procs : StartFinish(p) =>
          IF procs[p].child = "exited"
          THEN /\ inst_ret' = [op |-> "start", err |-> "Process exited"]
               /\ state'.process = state.process
          ELSE /\ inst_ret' = [op |-> "start", err |-> ""]
               /\ state'.process = <<p>>]_vars

\* ------------------------------------------------------------------------
\* C34: the stored status of an instance is only ever replaced by a status
\* published no earlier than the one it holds, however many times start was
\* called, and every published status is in the end received by every
\* updater, which leaves the last one stored
\* ------------------------------------------------------------------------
C34_StatusNeverGoesBack ==
    /\ [][\A m \in DOMAIN mirrors : Mirror(m) => mirrors[m] >= state.at]_vars
    /\ (status_tx # <<>>) ~> (status_tx = <<>>)

\* ------------------------------------------------------------------------
\* C35: every frame that try_submit accepted is in the end taken by a
\* worker and its response, made by the handler, is sent on the output
\* channel
\* ------------------------------------------------------------------------
C35_AcceptedTaskProcessed ==
    \A i \in 1..MaxFrames :
        (i \in InFlight)
            ~> (\E j \in DOMAIN outgoing_rx :
                    outgoing_rx[j].req = i /\ outgoing_rx[j].via = "handler")

\* ------------------------------------------------------------------------
\* C36: at most one child of the instance is alive at a time; a start made
\* while another start samples the log spawns nothing, and no start stores
\* its handle over a handle that is stored
\* ------------------------------------------------------------------------
C36_OneChildAtATime ==
    /\ [](Cardinality({p \in Procs : procs[p].child = "alive"}) <= 1)
    /\ [][(collecting # {} /\ \E spawn_ok \in BOOLEAN : InstanceStart(spawn_ok))
            => UNCHANGED <<procs, collecting, mirrors>>]_vars
    /\ [][\A p \in Procs : StartFinish(p) =>
            (state.process = <<>> \/ state'.process = state.process)]_vars

\* ------------------------------------------------------------------------
\* C37: once the process of a successful start has ended and the stored
\* status is stopped, the next start for which a process can be spawned is
\* accepted and spawns it, with no kill in between
\* ------------------------------------------------------------------------
C37_RestartAfterExit ==
    [][\A p \in Procs :
          (/\ state.process = <<p>>
           /\ procs[p].child = "exited"
           /\ procs[p].exited
           /\ state.status = "stopped"
           /\ collecting = {}
           /\ disk.uuid_ok
           /\ InstanceStart(TRUE))
              => /\ collecting' # {}
                 /\ \E q \in Procs : procs'[q].child = "alive"]_vars

\* ------------------------------------------------------------------------
\* C38: the temporary file of an upload session has the declared size
\* after any chunks, and so has the final file of an upload whose last
\* chunk returned done
\* ------------------------------------------------------------------------
C38_UploadKeepsSize ==
    /\ \A id \in DOMAIN upload_sessions :
           Len(inodes[upload_sessions[id].ino]) = upload_sessions[id].size
    /\ \A c \in DOMAIN calls :
           (/\ calls[c].op = "upload_chunk"
            /\ calls[c].pc = "ret"
            /\ calls[c].res.kind = "ok"
            /\ calls[c].res.val[1]
            /\ fs[Final(calls[c].sess.path)] # 0)
               => Len(inodes[fs[Final(calls[c].sess.path)]]) = calls[c].sess.size


\* ------------------------------------------------------------------------
\* C39: however the invokes of several threads on one event interleave, the
\* callback of a listener added with TListener::once() is called at most
\* once and that of a listener added with TListener::count(n) at most n
\* times
\* ------------------------------------------------------------------------
C39_CallsWithinLimit ==
    \A id \in DOMAIN registered :
        /\ registered[id].t = "once" => registered[id].called <= 1
        /\ registered[id].t = "count" => registered[id].called <= registered[id].n


\* ------------------------------------------------------------------------
\* C40: the processing of a frame that the pool admitted ends with exactly
\* one response for it put on the write queue, of status ok or error and
\* with a retcode, whichever action of the v1 action set the frame asks for
\* ------------------------------------------------------------------------
C40_OneResponsePerFrame ==
    [][\A i \in 1..MaxFrames :
          (i \in InFlight /\ i \notin InFlight')
              => /\ Len(outgoing_rx') = Len(outgoing_rx) + 1
                 /\ SubSeq(outgoing_rx', 1, Len(outgoing_rx)) = outgoing_rx
                 /\ LET response == outgoing_rx'[Len(outgoing_rx')]
                    IN  /\ response.req = i
                        /\ response.status \in {"ok", "error"}
                        /\ "retcode" \in DOMAIN response]_vars

====
